---- MODULE Spec2Model ----
(***************************************************************************)
(* Case-attempt lifecycle of OptoCase (src/routes/caseAttempts.js).        *)
(*                                                                         *)
(* The state is the case_attempts table, the cases table that my-progress  *)
(* joins to it, the database clock read by NOW()                           *)
(* and the requests being handled.  A handler is an async function: it    *)
(* runs up to its next `await pool.execute(...)`, the statement is then    *)
(* executed atomically by the database, and the handler continues.  Every *)
(* statement is one action, so the statements of concurrent requests      *)
(* interleave exactly as the connection pool lets them.                    *)
(*                                                                         *)
(* A request's URL, session and body are fixed when it arrives.  The model *)
(* draws each of them in the step where the handler first reads it:        *)
(* nothing observes a field before that step, so the behaviours are the    *)
(* same as if it had been drawn on arrival.                                *)
(*                                                                         *)
(* The table outlives the server process.  Spec and SeqSpec start on an    *)
(* empty table; ResumeSpec and ResumeSeqSpec start on the table a single   *)
(* ensure leaves behind, so that a behaviour of MaxRequests requests       *)
(* continues the life of an attempt that already exists.  SaveSpec runs   *)
(* save and by-case on the attempts of two users, with every section, and  *)
(* ListSpec runs my-progress alone on every table of at most MaxRows       *)
(* attempts: the listing is a function of the tables and the caller.       *)
(*                                                                         *)
(* An input that the branch taken never reads (the pdfUrl of a complete    *)
(* that is answered NOT_FOUND) is not recorded in the answered request.    *)
(*                                                                         *)
(* Three specifications reach outside the lifecycle.  RaceSpec starts on   *)
(* the table that two racing ensure requests leave behind.  DeleteSpec     *)
(* adds DELETE /api/cases/:id of src/server.js to the listing.  ServerSpec *)
(* runs the write endpoints of src/server.js, which check the role of the  *)
(* session user; `issued` counts the statements they hand to the database  *)
(* and `uploads` the files the upload middleware stores.  The handlers of  *)
(* server.js pass callbacks to db.query: a handler up to its db.query is   *)
(* one step and each callback, with the statement it answers, another.     *)
(***************************************************************************)
EXTENDS Naturals, Sequences, FiniteSets

VARIABLES
    case_attempts,  \* the table: row i has attempt_id i (AUTO_INCREMENT, no delete)
    cases,          \* the cases table, which my-progress joins to the attempts
    issued,         \* per table of server.js: the INSERTs and UPDATEs issued on it
    uploads,        \* the files that the upload middleware has stored
    now,            \* the database clock, read by NOW() and by column defaults
    req,            \* per slot: the request being handled there, if any
    last,           \* the request answered most recently, with its response
    served          \* number of requests that have arrived so far

vars == <<case_attempts, cases, issued, uploads, now, req, last, served>>

----------------------------------------------------------------------------
(* Bounds of the model *)

MaxRequests == 2     \* requests that arrive in one behaviour
MaxTime == 2         \* largest value of the database clock
MaxRows == 3         \* rows of a table drawn as the input of the listing

(* Input domains *)

Null == "NULL"                         \* SQL NULL, JS undefined / null
NullTime == 0                          \* SQL NULL in a timestamp column
Users == {"u1", "u2"}                  \* session user ids
Cases == {"c1", "c2"}                  \* case ids
NoCase == ""                           \* a missing (falsy) caseId
Slots == {1, 2}                        \* requests that can be in flight together
Sections == {"history", "exam", "assessment", "plan", "attachments"}
\* The keys every JS object inherits from Object.prototype: its methods ...
InheritedMethods ==
    {"constructor", "toString", "toLocaleString", "valueOf", "hasOwnProperty",
     "isPrototypeOf", "propertyIsEnumerable", "__defineGetter__",
     "__defineSetter__", "__lookupGetter__", "__lookupSetter__"}
\* ... and the accessor of its prototype
InheritedKeys == InheritedMethods \cup {"__proto__"}
SectionInputs == Sections \cup InheritedKeys \cup {"bogus", Null}
\* body.section where saves interleave with the other handlers: two of the
\* sections, one inherited key and the same keys that are not sections
FewSectionInputs == {"history", "exam", "constructor", "bogus", Null}
PageInputs == {Null, "exam"}           \* body.lastPage
DataInputs == {Null, "d1"}             \* body.data: absent, or an object
PdfInputs == {Null, "p1"}              \* body.pdfUrl
EmptyObject == "{}"                    \* the JS object {}

Kinds == {"ensure", "by-case", "save", "complete", "my-progress"}

----------------------------------------------------------------------------
(* JavaScript and SQL expressions used by the handlers *)

\* JS truthiness of a body field (undefined, null and "" are falsy)
Truthy(v) == v # Null /\ v # ""

\* a || b
Or(a, b) == IF Truthy(a) THEN a ELSE b

\* JSON.stringify(x): the JSON text of the object x
JSONstringify(x) == IF x = EmptyObject THEN "'{}'" ELSE "'" \o x \o "'"

\* COALESCE(a, b)
COALESCE(a, b) == IF a # Null THEN a ELSE b

\* obj[key] for a key the object literal does not define: the member inherited
\* from Object.prototype, as the text a template literal makes of it, or
\* undefined
ObjectPrototype(key) ==
    CASE key = "constructor" -> "function Object() { [native code] }"
      [] key \in InheritedMethods \ {"constructor"} ->
            "function " \o key \o "() { [native code] }"
      [] key = "__proto__" -> "[object Object]"
      [] OTHER -> Null

\* Variant: the exam key mapped to the history column
colMap_swapped(section) ==
    CASE section = "history"     -> "history_json"
      [] section = "exam"        -> "history_json"
      [] section = "assessment"  -> "assessment_json"
      [] section = "plan"        -> "plan_json"
      [] section = "attachments" -> "attachments_json"
      [] OTHER                   -> ObjectPrototype(section)

\* colMap[section] of the save handler: colMap is an object literal, so a key
\* it does not define is looked up in Object.prototype
colMap(section) ==
    CASE section = "history"     -> "history_json"
      [] section = "exam"        -> "exam_json"
      [] section = "assessment"  -> "assessment_json"
      [] section = "plan"        -> "plan_json"
      [] section = "attachments" -> "attachments_json"
      [] OTHER                   -> ObjectPrototype(section)

JsonColumns ==
    {"history_json", "exam_json", "assessment_json", "plan_json", "attachments_json"}

\* The values NOW() can return for a statement executed in the current state:
\* the clock never goes back, and may or may not have advanced since the
\* previous statement.
NowValues == {t \in {now, now + 1} : t <= MaxTime}

----------------------------------------------------------------------------
(* The case_attempts table *)

AttemptIds == 1..Len(case_attempts)

Rows == {case_attempts[i] : i \in AttemptIds}

\* The values of the columns an INSERT executed at time t does not name: the
\* section columns, pdf_url and completed_at are NULL; started_at and updated_at
\* are the time of creation (the data model of the specification; the table
\* definition is not part of the sources).
ColumnDefaults(t) ==
    [history_json     |-> Null,
     exam_json        |-> Null,
     assessment_json  |-> Null,
     plan_json        |-> Null,
     attachments_json |-> Null,
     pdf_url          |-> Null,
     started_at       |-> t,
     updated_at       |-> t,
     completed_at     |-> NullTime]

\* The row made by INSERT INTO case_attempts (case_id, user_id, last_page,
\* status) VALUES (?,?,?,?) executed at time t, with AUTO_INCREMENT id `id`
NewRow(id, caseId, userId, lastPage, status, t) ==
    LET default == ColumnDefaults(t)
    IN  [attempt_id       |-> id,
         case_id          |-> caseId,
         user_id          |-> userId,
         status           |-> status,
         last_page        |-> lastPage,
         history_json     |-> default.history_json,
         exam_json        |-> default.exam_json,
         assessment_json  |-> default.assessment_json,
         plan_json        |-> default.plan_json,
         attachments_json |-> default.attachments_json,
         pdf_url          |-> default.pdf_url,
         started_at       |-> default.started_at,
         updated_at       |-> default.updated_at,
         completed_at     |-> default.completed_at]

\* SELECT * FROM case_attempts WHERE attempt_id=? AND user_id=?
SelectByIdForUser(attemptId, userId) ==
    {row \in Rows : row.attempt_id = attemptId /\ row.user_id = userId}

\* Variant: the lookup by case without the user_id condition
SelectByCaseForUser_anyUser(caseId, userId) ==
    {row \in Rows : row.case_id = caseId}

\* SELECT * FROM case_attempts WHERE case_id=? AND user_id=?   (before LIMIT 1)
SelectByCaseForUser(caseId, userId) ==
    {row \in Rows : row.case_id = caseId /\ row.user_id = userId}

\* Variant: the new row always starts on 'history', whatever lastPage is
InsertAttempt_historyOnly(caseId, userId, lastPage, status, t) ==
    Append(case_attempts,
           NewRow(Len(case_attempts) + 1, caseId, userId, "history", status, t))

\* Variant: an insert that does nothing when the pair already has a row
InsertAttempt_ifAbsent(caseId, userId, lastPage, status, t) ==
    IF SelectByCaseForUser(caseId, userId) # {}
    THEN case_attempts
    ELSE Append(case_attempts,
                NewRow(Len(case_attempts) + 1, caseId, userId, lastPage, status, t))

\* INSERT INTO case_attempts (case_id, user_id, last_page, status) VALUES (?,?,?,?)
InsertAttempt(caseId, userId, lastPage, status, t) ==
    Append(case_attempts,
           NewRow(Len(case_attempts) + 1, caseId, userId, lastPage, status, t))

\* SELECT * FROM case_attempts WHERE attempt_id=?
SelectById(attemptId) ==
    {row \in Rows : row.attempt_id = attemptId}

\* "no row": the null of `rows[0] || null` and of `attempt: null`
NoRow == [attempt_id |-> 0]

\* rows[0] || null, for a result set of at most one row
FirstOrNull(rows) == IF rows = {} THEN NoRow ELSE CHOOSE row \in rows : TRUE

\* The values `rows[0] || null` can take for a LIMIT 1 query without ORDER BY:
\* the database may return any one of the matching rows.
LimitOne(rows) == IF rows = {} THEN {NoRow} ELSE rows

\* Variant: the lookup by id without the user_id condition
getAttemptByIdForUser_anyUser(attemptId, userId) ==
    FirstOrNull(SelectById(attemptId))

\* getAttemptByIdForUser(attemptId, userId): rows[0] || null
getAttemptByIdForUser(attemptId, userId) ==
    FirstOrNull(SelectByIdForUser(attemptId, userId))

\* Variant: rows[1] instead of rows[0], which a LIMIT 1 result never has
getAttemptByCaseForUser_secondRow(caseId, userId) == {NoRow}

\* Variant: the lookup sees only attempts that are still in progress
getAttemptByCaseForUser_inProgressOnly(caseId, userId) ==
    LimitOne({row \in SelectByCaseForUser(caseId, userId) : row.status = "IN_PROGRESS"})

\* getAttemptByCaseForUser(caseId, userId): the values rows[0] || null can take
getAttemptByCaseForUser(caseId, userId) ==
    LimitOne(SelectByCaseForUser(caseId, userId))

\* Variant: the status literal misspelt, so the comparison never holds
IsCompleted_typo(attempt) == attempt.status = "COMPLETE"

\* Variant: the block applies to an attempt in any status
IsCompleted_anyStatus(attempt) == attempt.status \in {"IN_PROGRESS", "COMPLETED"}

\* existing.status === 'COMPLETED', the re-entry block of ensure, by-case and save
IsCompleted(attempt) == attempt.status = "COMPLETED"

\* Variant: complete without its idempotence check
AlreadyCompleted_never(attempt) == FALSE

\* attempt.status === 'COMPLETED', the idempotence check of complete
AlreadyCompleted(attempt) == attempt.status = "COMPLETED"

\* Variant: the last_page update also puts the attempt back in progress
UpdateLastPage_reopens(lastPage, attemptId, t) ==
    [i \in AttemptIds |->
        IF case_attempts[i].attempt_id = attemptId
        THEN [case_attempts[i] EXCEPT !.last_page = lastPage, !.updated_at = t,
                                      !.status = "IN_PROGRESS"]
        ELSE case_attempts[i]]

\* Variant: the last_page update without its WHERE clause
UpdateLastPage_everyRow(lastPage, attemptId, t) ==
    [i \in AttemptIds |->
        [case_attempts[i] EXCEPT !.last_page = lastPage, !.updated_at = t]]

\* UPDATE case_attempts SET last_page=?, updated_at=NOW() WHERE attempt_id=?
UpdateLastPage(lastPage, attemptId, t) ==
    [i \in AttemptIds |->
        IF case_attempts[i].attempt_id = attemptId
        THEN [case_attempts[i] EXCEPT !.last_page = lastPage, !.updated_at = t]
        ELSE case_attempts[i]]

\* Variant: a section column that already holds a payload keeps it
UpdateSection_firstWins(col, json, lastPage, attemptId, userId, t) ==
    [i \in AttemptIds |->
        IF case_attempts[i].attempt_id = attemptId /\ case_attempts[i].user_id = userId
        THEN [case_attempts[i] EXCEPT
                 ![col] = IF @ = Null THEN json ELSE @,
                 !.last_page = COALESCE(lastPage, @),
                 !.updated_at = t]
        ELSE case_attempts[i]]

\* Variant: the UPDATE without its WHERE clause
UpdateSection_everyRow(col, json, lastPage, attemptId, userId, t) ==
    [i \in AttemptIds |->
        [case_attempts[i] EXCEPT
            ![col] = json,
            !.last_page = COALESCE(lastPage, @),
            !.updated_at = t]]

\* Variant: last_page assigned the parameter itself, without COALESCE
UpdateSection_noCoalesce(col, json, lastPage, attemptId, userId, t) ==
    [i \in AttemptIds |->
        IF case_attempts[i].attempt_id = attemptId /\ case_attempts[i].user_id = userId
        THEN [case_attempts[i] EXCEPT
                 ![col] = json,
                 !.last_page = lastPage,
                 !.updated_at = t]
        ELSE case_attempts[i]]

\* UPDATE case_attempts SET ${col}=?, last_page=COALESCE(?, last_page),
\*   updated_at=NOW() WHERE attempt_id=? AND user_id=?
UpdateSection(col, json, lastPage, attemptId, userId, t) ==
    [i \in AttemptIds |->
        IF case_attempts[i].attempt_id = attemptId /\ case_attempts[i].user_id = userId
        THEN [case_attempts[i] EXCEPT
                 ![col] = json,
                 !.last_page = COALESCE(lastPage, @),
                 !.updated_at = t]
        ELSE case_attempts[i]]

\* Variant: the completing UPDATE leaves status as it is
UpdateCompleted_keepsStatus(pdfUrl, attemptId, userId, t) ==
    [i \in AttemptIds |->
        IF case_attempts[i].attempt_id = attemptId /\ case_attempts[i].user_id = userId
        THEN [case_attempts[i] EXCEPT
                 !.pdf_url = pdfUrl,
                 !.completed_at = t,
                 !.updated_at = t]
        ELSE case_attempts[i]]

\* UPDATE case_attempts SET status="COMPLETED", pdf_url=?, completed_at=NOW(),
\*   updated_at=NOW() WHERE attempt_id=? AND user_id=?
UpdateCompleted(pdfUrl, attemptId, userId, t) ==
    [i \in AttemptIds |->
        IF case_attempts[i].attempt_id = attemptId /\ case_attempts[i].user_id = userId
        THEN [case_attempts[i] EXCEPT
                 !.status = "COMPLETED",
                 !.pdf_url = pdfUrl,
                 !.completed_at = t,
                 !.updated_at = t]
        ELSE case_attempts[i]]

----------------------------------------------------------------------------
(* The listing of GET /my-progress *)

\* A row of the cases table (its other columns are not read here)
CaseRow(caseId) == [case_id |-> caseId, case_name |-> "case " \o caseId]

\* SELECT a.attempt_id, a.case_id, a.status, a.last_page, a.started_at,
\*   a.updated_at, a.completed_at, a.pdf_url, c.case_name
\* FROM case_attempts a JOIN cases c ON c.case_id = a.case_id WHERE a.user_id=?
JoinCases(userId) ==
    {[attempt_id   |-> p[1].attempt_id,
      case_id      |-> p[1].case_id,
      status       |-> p[1].status,
      last_page    |-> p[1].last_page,
      started_at   |-> p[1].started_at,
      updated_at   |-> p[1].updated_at,
      completed_at |-> p[1].completed_at,
      pdf_url      |-> p[1].pdf_url,
      case_name    |-> p[2].case_name] :
        p \in {q \in Rows \X cases :
                  q[2].case_id = q[1].case_id /\ q[1].user_id = userId}}

\* The value of the sort expression (a.status='IN_PROGRESS')
InProgress(row) == IF row.status = "IN_PROGRESS" THEN 1 ELSE 0

\* Variant: ordered by recency alone
NotAfter_recencyOnly(x, y) == x.updated_at >= y.updated_at

\* ORDER BY (a.status='IN_PROGRESS') DESC, a.updated_at DESC allows x before y
NotAfter(x, y) ==
    \/ InProgress(x) > InProgress(y)
    \/ InProgress(x) = InProgress(y) /\ x.updated_at >= y.updated_at

\* The results the database may return for the rows: each row once, in an
\* order the ORDER BY allows (rows with equal sort keys come in any order)
OrderBy(rows) ==
    {s \in [1..Cardinality(rows) -> rows] :
        \A i, j \in 1..Cardinality(rows) :
            i < j => (s[i] # s[j] /\ NotAfter(s[i], s[j]))}

----------------------------------------------------------------------------
(* The tables that the write endpoints of src/server.js insert into or
   update *)

ServerTables ==
    {"cases", "student_notes", "interpretations", "assessment_plan",
     "assessment_plan_cpt", "performed_tests", "patients", "appointments",
     "histories", "exam_sections", "codes"}

\* The most elements of an array or list field of a request body
MaxItems == 2

\* case_id values that INSERT INTO cases hands out, in AUTO_INCREMENT order
\* (the ids of Cases are taken when the server starts)
NewCaseIds == <<"c3", "c4", "c5", "c6">>

----------------------------------------------------------------------------
(* Requests *)

\* A JSON response body; the fields a handler does not send keep these values
NoBody ==
    [error |-> Null, attempt |-> NoRow, ok |-> FALSE, alreadyCompleted |-> FALSE,
     attempts |-> <<>>, success |-> FALSE]

Error(code) == [NoBody EXCEPT !.error = code]

\* A slot with no request
Idle ==
    [pc |-> "idle", kind |-> Null, session |-> Null, user |-> Null, caseId |-> Null,
     attemptId |-> 0, lastPage |-> Null, section |-> Null, data |-> Null,
     pdfUrl |-> Null, existing |-> NoRow, insertId |-> 0, writes |-> 0,
     files |-> 0, pending |-> 0, err |-> FALSE, status |-> 0, body |-> NoBody]

Waiting == {"ensure_select", "ensure_update", "ensure_insert", "ensure_created",
            "by_case_select", "save_select", "save_update",
            "complete_select", "complete_update", "my_progress_select"}

InFlight(r) == req[r].pc \in Waiting

Free(r) == req[r].pc = "idle"

\* res.status(code).json(body): the request `me` of slot r is answered and
\* leaves the slot
Respond(r, me, code, body) ==
    /\ last' = [me EXCEPT !.pc = "done", !.status = code, !.body = body]
    /\ req' = [req EXCEPT ![r] = Idle]

\* the request, its statement having thrown
Threw(me) == [me EXCEPT !.err = TRUE]

\* Variant: the request stays in its slot to execute the statement again
Catch_retries(r, me) == req' = [req EXCEPT ![r] = me] /\ last' = last

\* catch (err) { console.error(...); return res.status(500).json({ error:
\* 'SERVER_ERROR' }) }
Catch(r, me) == Respond(r, me, 500, Error("SERVER_ERROR"))

\* the request, having executed one more INSERT or UPDATE
Written(me) == [me EXCEPT !.writes = @ + 1]

\* A request as it arrives with its session; a request that enters a handler
\* is about to execute the handler's first statement
Arrive(kind, pc, session) ==
    [Idle EXCEPT !.pc = pc, !.kind = kind, !.session = session]

\* Slots are interchangeable: a request takes the first free one.
CanArrive(r) ==
    /\ Free(r)
    /\ \A s \in Slots : s < r => ~Free(s)
    /\ served < MaxRequests

\* The server starts with no request in flight
Start(table, t) ==
    /\ case_attempts = table
    /\ cases = {CaseRow(c) : c \in Cases}
    /\ issued = [t_ \in ServerTables |-> 0]
    /\ uploads = 0
    /\ now = t
    /\ req = [r \in Slots |-> Idle]
    /\ last = Idle
    /\ served = 0

\* A server started on an empty table
Init == Start(<<>>, NullTime + 1)

\* A server started on the table that ensure({caseId: "c1"}) by u1 left behind
ResumeInit ==
    Start(<<NewRow(1, "c1", "u1", Or(Null, "history"), "IN_PROGRESS", NullTime + 1)>>,
          NullTime + 1)

\* A server started on the table that ensure({caseId: "c1"}) by u1 at clock
\* value 1 and ensure({caseId: "c1"}) by u2 at clock value 2 left behind
SaveInit ==
    Start(<<NewRow(1, "c1", "u1", Or(Null, "history"), "IN_PROGRESS", NullTime + 1),
            NewRow(2, "c1", "u2", Or(Null, "history"), "IN_PROGRESS", NullTime + 2)>>,
          NullTime + 2)

\* A server started on the table that two racing ensure({caseId: "c1"}) of u1
\* left behind: both found no attempt and both inserted
RaceInit ==
    Start(<<NewRow(1, "c1", "u1", Or(Null, "history"), "IN_PROGRESS", NullTime + 1),
            NewRow(2, "c1", "u1", Or(Null, "history"), "IN_PROGRESS", NullTime + 1)>>,
          NullTime + 1)

\* An attempt as the handlers leave it: created by ensure at the first clock
\* value, last written at `updated`, and by then completed or still in progress
ListedRow(id, caseId, userId, completed, updated) ==
    LET row == NewRow(id, caseId, userId, Or(Null, "history"), "IN_PROGRESS",
                      NullTime + 1)
    IN  IF completed
        THEN [row EXCEPT !.status = "COMPLETED", !.completed_at = updated,
                         !.updated_at = updated]
        ELSE [row EXCEPT !.updated_at = updated]

\* The listing reads case_id only to join the case's name: the attempts of a
\* drawn table take the cases in turn
CaseOfRow(id) == IF id % 2 = 1 THEN "c1" ELSE "c2"

\* The table of n such attempts, the i-th of user o[i][1], completed or not as
\* o[i][2] says, and last updated at o[i][3]
ListedTable(n, o) ==
    [i \in 1..n |-> ListedRow(i, CaseOfRow(i), o[i][1], o[i][2], o[i][3])]

\* A server started on any table of at most MaxRows such attempts: the input
\* of the listing
ListInit ==
    \E n \in 0..MaxRows :
        \E o \in [1..n -> Users \X BOOLEAN \X ((NullTime + 1)..MaxTime)] :
            Start(ListedTable(n, o), MaxTime)

----------------------------------------------------------------------------
(* requireAuth: the session the request carries *)

\* req.session.user: absent, an object without an id, or a logged-in user.
\* The id of a logged-in user is one of Users; it is drawn where the handler
\* first reads req.user.user_id.
Sessions == {"no user", "no id", "user"}

\* u is truthy
HasUser(session) == session # "no user"

\* u.id is truthy
HasId(session) == session = "user"

\* Variant: a session user passes whether or not it has an id
requireAuth_userOnly(session) == HasUser(session)

\* if (!u || !u.id) return 401; otherwise next()
requireAuth(session) == ~(~HasUser(session) \/ ~HasId(session))

----------------------------------------------------------------------------
(* A request with a session user enters its handler, which runs up to its
   first statement *)

FirstStatement(kind) ==
    CASE kind = "ensure" -> "ensure_select"
      [] kind = "by-case" -> "by_case_select"
      [] kind = "save" -> "save_select"
      [] kind = "complete" -> "complete_select"
      [] kind = "my-progress" -> "my_progress_select"

HandlerArrive(r, kind, session) ==
    /\ CanArrive(r)
    /\ requireAuth(session)
    /\ served' = served + 1
    /\ req' = [req EXCEPT ![r] = Arrive(kind, FirstStatement(kind), session)]
    /\ UNCHANGED <<case_attempts, cases, issued, uploads, now, last>>

----------------------------------------------------------------------------
(* requireAuth: a request without a session user is answered 401 *)

Unauthenticated(r, kind, session) ==
    /\ CanArrive(r)
    /\ ~requireAuth(session)
    /\ served' = served + 1
    /\ last' = [Arrive(kind, "done", session) EXCEPT
                    !.status = 401, !.body = Error("Not authenticated")]
    /\ UNCHANGED <<case_attempts, cases, issued, uploads, now, req>>

----------------------------------------------------------------------------
(* POST /case-attempts/ensure *)

\* if (!caseId) return res.status(400).json({ error: 'MISSING_CASE_ID' })
EnsureMissingCaseId(r, session, userId, caseId, lastPage) ==
    /\ CanArrive(r)
    /\ requireAuth(session)
    /\ ~Truthy(caseId)
    /\ served' = served + 1
    /\ last' = [Arrive("ensure", "done", session) EXCEPT
                    !.user = userId, !.caseId = caseId, !.lastPage = lastPage,
                    !.status = 400, !.body = Error("MISSING_CASE_ID")]
    /\ UNCHANGED <<case_attempts, cases, issued, uploads, now, req>>

\* const existing = await getAttemptByCaseForUser(caseId, userId); and the
\* branches on it up to the next statement
EnsureSelect(r, userId, caseId, lastPage) ==
    /\ req[r].pc = "ensure_select"
    /\ Truthy(caseId)
    /\ \E existing \in getAttemptByCaseForUser(caseId, userId) :
          LET me == [req[r] EXCEPT !.user = userId, !.caseId = caseId,
                                   !.lastPage = lastPage, !.existing = existing]
          IN  IF existing # NoRow
              THEN IF IsCompleted(existing)
                   THEN Respond(r, me, 403,
                                [Error("CASE_COMPLETED") EXCEPT !.attempt = existing])
                   ELSE IF Truthy(lastPage)
                   THEN /\ req' = [req EXCEPT ![r] = [me EXCEPT !.pc = "ensure_update"]]
                        /\ last' = last
                   ELSE Respond(r, me, 200, [NoBody EXCEPT !.attempt = existing])
              ELSE /\ req' = [req EXCEPT ![r] = [me EXCEPT !.pc = "ensure_insert"]]
                   /\ last' = last
    /\ UNCHANGED <<case_attempts, cases, issued, uploads, now, served>>

\* UPDATE ... SET last_page=?, updated_at=NOW() WHERE attempt_id=?;
\* existing.last_page = lastPage; return res.json({ attempt: existing })
EnsureUpdate(r) ==
    /\ req[r].pc = "ensure_update"
    /\ \E t \in NowValues :
          /\ now' = t
          /\ case_attempts' =
                UpdateLastPage(req[r].lastPage, req[r].existing.attempt_id, t)
    /\ Respond(r, Written(req[r]), 200,
          [NoBody EXCEPT !.attempt =
              [req[r].existing EXCEPT !.last_page = req[r].lastPage]])
    /\ UNCHANGED <<cases, issued, uploads, served>>

\* INSERT INTO case_attempts ... VALUES (caseId, userId, lastPage || 'history',
\* 'IN_PROGRESS'); ins.insertId is the new row's AUTO_INCREMENT id
EnsureInsert(r) ==
    /\ req[r].pc = "ensure_insert"
    /\ \E t \in NowValues :
          /\ now' = t
          /\ case_attempts' =
                InsertAttempt(req[r].caseId, req[r].user,
                              Or(req[r].lastPage, "history"), "IN_PROGRESS", t)
    /\ req' = [req EXCEPT ![r] =
                  [Written(@) EXCEPT !.pc = "ensure_created",
                                     !.insertId = Len(case_attempts) + 1]]
    /\ UNCHANGED <<cases, issued, uploads, last, served>>

\* SELECT * FROM case_attempts WHERE attempt_id=ins.insertId;
\* return res.json({ attempt: createdRows[0] })
EnsureCreated(r) ==
    /\ req[r].pc = "ensure_created"
    /\ Respond(r, req[r], 200,
          [NoBody EXCEPT !.attempt = FirstOrNull(SelectById(req[r].insertId))])
    /\ UNCHANGED <<case_attempts, cases, issued, uploads, now, served>>

----------------------------------------------------------------------------
(* GET /case-attempts/by-case/:caseId *)

\* a route parameter is never empty, so MISSING_CASE_ID cannot be answered here
ByCaseSelect(r, userId, caseId) ==
    /\ req[r].pc = "by_case_select"
    /\ \E attempt \in getAttemptByCaseForUser(caseId, userId) :
          LET me == [req[r] EXCEPT !.user = userId, !.caseId = caseId,
                                   !.existing = attempt]
          IN  IF attempt # NoRow /\ IsCompleted(attempt)
              THEN Respond(r, me, 403,
                           [Error("CASE_COMPLETED") EXCEPT !.attempt = attempt])
              ELSE Respond(r, me, 200, [NoBody EXCEPT !.attempt = attempt])
    /\ UNCHANGED <<case_attempts, cases, issued, uploads, now, served>>

----------------------------------------------------------------------------
(* PUT /case-attempts/:attemptId/save *)

\* Variant: the section is checked before the attempt is looked at
SaveSelect_sectionFirst(r, userId, attemptId, section) ==
    /\ req[r].pc = "save_select"
    /\ LET attempt == getAttemptByIdForUser(attemptId, userId)
           me == [req[r] EXCEPT !.user = userId, !.attemptId = attemptId,
                                !.section = section, !.existing = attempt]
       IN  IF ~Truthy(colMap(section))
           THEN Respond(r, me, 400, Error("BAD_SECTION"))
           ELSE IF attempt = NoRow
           THEN Respond(r, me, 404, Error("NOT_FOUND"))
           ELSE IF IsCompleted(attempt)
           THEN Respond(r, me, 403, Error("CASE_COMPLETED"))
           ELSE /\ req' = [req EXCEPT ![r] = [me EXCEPT !.pc = "save_update"]]
                /\ last' = last
    /\ UNCHANGED <<case_attempts, cases, issued, uploads, now, served>>

\* const attempt = await getAttemptByIdForUser(attemptId, userId); then the
\* NOT_FOUND, CASE_COMPLETED and BAD_SECTION checks, in this order
SaveSelect(r, userId, attemptId, section) ==
    /\ req[r].pc = "save_select"
    /\ LET attempt == getAttemptByIdForUser(attemptId, userId)
           me == [req[r] EXCEPT !.user = userId, !.attemptId = attemptId,
                                !.section = section, !.existing = attempt]
       IN  IF attempt = NoRow
           THEN Respond(r, me, 404, Error("NOT_FOUND"))
           ELSE IF IsCompleted(attempt)
           THEN Respond(r, me, 403, Error("CASE_COMPLETED"))
           ELSE IF ~Truthy(colMap(section))
           THEN Respond(r, me, 400, Error("BAD_SECTION"))
           ELSE /\ req' = [req EXCEPT ![r] = [me EXCEPT !.pc = "save_update"]]
                /\ last' = last
    /\ UNCHANGED <<case_attempts, cases, issued, uploads, now, served>>

\* UPDATE ... SET ${col}=JSON.stringify(data || {}), last_page=COALESCE(lastPage
\* || null, last_page), updated_at=NOW() WHERE attempt_id=? AND user_id=?
\* A col that is not the name of a column makes a statement the database
\* cannot parse: pool.execute throws and the catch block answers 500.
SaveUpdate(r, data, lastPage) ==
    /\ req[r].pc = "save_update"
    /\ LET col == colMap(req[r].section)
           me == [req[r] EXCEPT !.data = data, !.lastPage = lastPage]
       IN  IF col \in JsonColumns
           THEN /\ \E t \in NowValues :
                     /\ now' = t
                     /\ case_attempts' =
                           UpdateSection(col, JSONstringify(Or(data, EmptyObject)),
                                         Or(lastPage, Null),
                                         req[r].attemptId, req[r].user, t)
                /\ Respond(r, Written(me), 200, [NoBody EXCEPT !.ok = TRUE])
           ELSE /\ Catch(r, Threw(me))
                /\ UNCHANGED <<case_attempts, now>>
    /\ UNCHANGED <<cases, issued, uploads, served>>

----------------------------------------------------------------------------
(* POST /case-attempts/:attemptId/complete *)

CompleteSelect(r, userId, attemptId, pdfUrl) ==
    /\ req[r].pc = "complete_select"
    /\ LET attempt == getAttemptByIdForUser(attemptId, userId)
           found == [req[r] EXCEPT !.user = userId, !.attemptId = attemptId,
                                   !.existing = attempt]
           me == [found EXCEPT !.pdfUrl = pdfUrl]
       IN  IF attempt = NoRow
           THEN Respond(r, found, 404, Error("NOT_FOUND"))
           ELSE IF AlreadyCompleted(attempt)
           THEN Respond(r, me, 200, [NoBody EXCEPT !.ok = TRUE, !.alreadyCompleted = TRUE])
           ELSE /\ req' = [req EXCEPT ![r] = [me EXCEPT !.pc = "complete_update"]]
                /\ last' = last
    /\ UNCHANGED <<case_attempts, cases, issued, uploads, now, served>>

\* UPDATE ... SET status="COMPLETED", pdf_url=pdfUrl || null, completed_at=NOW(),
\* updated_at=NOW() WHERE attempt_id=? AND user_id=?
CompleteUpdate(r) ==
    /\ req[r].pc = "complete_update"
    /\ \E t \in NowValues :
          /\ now' = t
          /\ case_attempts' =
                UpdateCompleted(Or(req[r].pdfUrl, Null), req[r].attemptId, req[r].user, t)
    /\ Respond(r, Written(req[r]), 200, [NoBody EXCEPT !.ok = TRUE])
    /\ UNCHANGED <<cases, issued, uploads, served>>

----------------------------------------------------------------------------
(* GET /my-progress *)

\* const [rows] = await pool.execute(`SELECT ... ORDER BY ...`, [userId]);
\* return res.json({ attempts: rows })
MyProgressSelect(r, userId) ==
    /\ req[r].pc = "my_progress_select"
    /\ \E rows \in OrderBy(JoinCases(userId)) :
          Respond(r, [req[r] EXCEPT !.user = userId], 200,
                  [NoBody EXCEPT !.attempts = rows])
    /\ UNCHANGED <<case_attempts, cases, issued, uploads, now, served>>

----------------------------------------------------------------------------
(* src/server.js.  db.query takes a callback: a handler runs up to the
   db.query it calls and returns to the event loop, the database executes
   the statement, and the callback continues the request.  As for the
   awaited statements of caseAttempts.js, the execution of a statement and
   the continuation that receives its result are one step; between the
   handler and the callback other requests are served.  `issued` counts the
   INSERT and UPDATE statements at the moment they are handed to db.query,
   whether or not they succeed later. *)

\* The request, having handed n more INSERTs or UPDATEs to db.query
Issued(me, n) == [me EXCEPT !.writes = @ + n]

\* n statements on one table
Queries(table, n) == [t \in ServerTables |-> IF t = table THEN n ELSE 0]

NoQueries == [t \in ServerTables |-> 0]

Sum(f) == f["cases"] + f["student_notes"] + f["interpretations"]
            + f["assessment_plan"] + f["assessment_plan_cpt"]
            + f["performed_tests"] + f["patients"] + f["appointments"]
            + f["histories"] + f["exam_sections"] + f["codes"]

\* db.query(sql, params, callback), once for each of the queries
Issue(queries) == issued' = [t \in ServerTables |-> issued[t] + queries[t]]

\* The handler of the request `me` of slot r has returned to the event loop;
\* the request waits for the callback named by pc
Await(r, me, pc) ==
    /\ req' = [req EXCEPT ![r] = [me EXCEPT !.pc = pc]]
    /\ last' = last

\* res.status(code).json({ success, ... }), res.status(code).send(text) or
\* res.redirect(url): only the success field of a body is kept
Answer(r, me, code, success) ==
    Respond(r, me, code, [NoBody EXCEPT !.success = success])

\* The handler throws before it has answered: Express answers 500
Throws(r, me) == Answer(r, Threw(me), 500, FALSE)

\* A request arrives at a route of server.js, in the first free slot.  One
\* that is answered before the handler returns leaves the slot at once.
Arrives(r) ==
    /\ CanArrive(r)
    /\ served' = served + 1
    /\ UNCHANGED <<case_attempts, now>>

\* The callback of a statement of the request in slot r runs
CallsBack(r, pc) ==
    /\ req[r].pc = pc
    /\ UNCHANGED <<case_attempts, now, served>>

----------------------------------------------------------------------------
(* DELETE /api/cases/:id: the handler checks no session and calls db.query.
   DELETE FROM cases removes the case's row; no statement of the sources
   removes rows of case_attempts, whose attempts are never deleted, so the
   attempts of the case stay. *)

\* DELETE FROM cases WHERE case_id = ?
DeleteFromCases(caseId) == {c \in cases : c.case_id # caseId}

\* app.delete("/api/cases/:id", (req, res) => { ... db.query(sql, [caseId],
\* callback) })
DeleteCaseRequest(r, session, caseId) ==
    /\ Arrives(r)
    /\ Await(r, [Arrive("delete-case", "idle", session) EXCEPT
                    !.caseId = caseId],
             "delete_cases")
    /\ UNCHANGED <<cases, issued, uploads>>

\* The DELETE is executed; (err, result) => ... res.json({ success: true })
DeleteCase(r) ==
    /\ CallsBack(r, "delete_cases")
    /\ cases' = DeleteFromCases(req[r].caseId)
    /\ Answer(r, req[r], 200, TRUE)
    /\ UNCHANGED <<issued, uploads>>

\* The DELETE fails; if (err) return res.status(500).json({ error:
\* "Database error" })
DeleteCaseFailure(r) ==
    /\ CallsBack(r, "delete_cases")
    /\ Respond(r, Threw(req[r]), 500, Error("Database error"))
    /\ UNCHANGED <<cases, issued, uploads>>

----------------------------------------------------------------------------
(* The write endpoints of src/server.js: four for students and the six steps
   of the case wizard for professors.  Each handler checks the role of the
   session user before it calls db.query.  Steps 3 and 4 are routed through
   the upload middleware, which stores the files of a multipart request in
   uploads/ before the handler runs. *)

\* req.session.user: absent, or the user that a login stored, told by its role
SessionRoles == {"no user", "student", "professor"}

\* The elements of an array of at most MaxItems elements; TRUE: an element
\* whose fields the handler can read, FALSE: one at which its read throws
\* (null; for a CPT code also an element without applies_to)
Elements == UNION {[1..n -> BOOLEAN] : n \in 0..MaxItems}

\* A field of a JSON body that a handler takes for an array, by what the
\* handlers ask of it.  truthy: the value is truthy (undefined, null, "", 0
\* and false are not); empty: value.length === 0; isArray: the value is an
\* array, and only then has it a map method and elements
ListInputs ==
    {[truthy |-> FALSE, empty |-> FALSE, isArray |-> FALSE, elements |-> <<>>]}
    \cup {[truthy |-> TRUE, empty |-> e, isArray |-> FALSE, elements |-> <<>>] :
             e \in BOOLEAN}
    \cup {[truthy |-> TRUE, empty |-> e = <<>>, isArray |-> TRUE, elements |-> e] :
             e \in Elements}

\* every element of the array can be read
WellFormed(list) == \A i \in 1..Len(list.elements) : list.elements[i]

\* A field of a body on which a handler calls trim(), by what the handlers
\* ask of it.  In `val && val.trim()` (Guarded) a falsy value ends the
\* expression: "falsy" is undefined, null, "", 0 or false and "nonstring" a
\* truthy value that is no string.  In `val?.trim()` (Chained) only undefined
\* and null do: "nullish" is one of these and "nonstring" any other value
\* that is no string, 0 and false among them.  "blank" is a string that
\* trims to "" (in Guarded: and is not ""), "text" any other string.
Guarded == {"falsy", "blank", "text", "nonstring"}

Chained == {"nullish", "blank", "text", "nonstring"}

\* val.trim() is called on a value that has no such method
TrimThrows(val) == val = "nonstring"

\* the value, trimmed, is truthy
Filled(val) == val = "text"

\* Variant: any session user passes, whatever its role
Unauthorized_anyRole(session, role) == ~HasUser(session)

\* if (!req.session.user || req.session.user.role !== role)
Unauthorized(session, role) == ~HasUser(session) \/ session # role

\* return res.status(403).json({ success: false, message: 'Unauthorized' })
\* and, in the wizard, return res.status(403).send('Unauthorized')
Forbidden(r, me) == Answer(r, me, 403, FALSE) /\ issued' = issued

\* (err) => { if (err) return res.status(500).json({ success: false, ... });
\* res.json({ success: true }) }
JsonCallback(r, pc, err) ==
    /\ CallsBack(r, pc)
    /\ IF err THEN Answer(r, Threw(req[r]), 500, FALSE)
              ELSE Answer(r, req[r], 200, TRUE)
    /\ UNCHANGED <<cases, issued, uploads>>

\* (err) => { if (err) return res.status(500).send('Database error');
\* res.redirect(...) }
RedirectCallback(r, pc, err) ==
    /\ CallsBack(r, pc)
    /\ IF err THEN Answer(r, Threw(req[r]), 500, FALSE)
              ELSE Answer(r, req[r], 302, FALSE)
    /\ UNCHANGED <<cases, issued, uploads>>

\* The elements that can be read
Readables(elements) == Cardinality({i \in 1..Len(elements) : elements[i]})

\* POST /api/student-notes.  testing: section === "testing".  With an array
\* of interpretations, interpretations.map makes a promise for each element,
\* whose executor calls db.query; at an element that is null the executor
\* throws, which rejects that promise and lets the map go on.  The handler
\* answers when Promise.all settles: at once for an empty array and for a
\* promise that is rejected already.  Otherwise one INSERT ... ON DUPLICATE
\* KEY UPDATE.
StudentNotes(r, session, testing, interpretations) ==
    LET me == Arrive("/api/student-notes", "idle", session)
        n == Readables(interpretations.elements)
    IN  /\ Arrives(r)
        /\ IF Unauthorized(session, "student")
           THEN Forbidden(r, me)
           ELSE IF testing /\ interpretations.isArray
                THEN /\ Issue(Queries("interpretations", n))
                     /\ IF ~WellFormed(interpretations)
                        THEN Throws(r, Issued(me, n))
                        ELSE IF n = 0
                        THEN Answer(r, me, 200, TRUE)
                        ELSE Await(r, [Issued(me, n) EXCEPT !.pending = n],
                                   "interpretations_insert")
                ELSE /\ Issue(Queries("student_notes", 1))
                     /\ Await(r, Issued(me, 1), "student_notes_insert")
        /\ UNCHANGED <<cases, uploads>>

\* (err) => { if (err) return reject(err); resolve() } of one INSERT INTO
\* interpretations: Promise.all rejects with the first failure (.catch: 500)
\* and resolves with the last success (.then: res.json({ success: true }))
InterpretationsCallback(r, err) ==
    /\ CallsBack(r, "interpretations_insert")
    /\ IF err THEN Answer(r, Threw(req[r]), 500, FALSE)
       ELSE IF req[r].pending = 1
       THEN Answer(r, [req[r] EXCEPT !.pending = 0], 200, TRUE)
       ELSE Await(r, [req[r] EXCEPT !.pending = @ - 1], "interpretations_insert")
    /\ UNCHANGED <<cases, issued, uploads>>

StudentNotesCallback(r, err) == JsonCallback(r, "student_notes_insert", err)

\* POST /api/assessment-plan: assessments.map reads every element and throws
\* when there is no array or an element is null; then one bulk INSERT
AssessmentPlan(r, session, assessments) ==
    LET me == Arrive("/api/assessment-plan", "idle", session)
    IN  /\ Arrives(r)
        /\ IF Unauthorized(session, "student")
           THEN Forbidden(r, me)
           ELSE IF ~assessments.isArray \/ ~WellFormed(assessments)
                THEN Throws(r, me) /\ issued' = issued
                ELSE /\ Issue(Queries("assessment_plan", 1))
                     /\ Await(r, [Issued(me, 1) EXCEPT
                                     !.pending = Len(assessments.elements)],
                              "assessment_plan_insert")
        /\ UNCHANGED <<cases, uploads>>

\* The callback of the bulk INSERT; pending: the rows it was given.  VALUES
\* of an empty array is not a statement the database accepts.
AssessmentPlanCallback(r, err) ==
    /\ req[r].pending = 0 => err
    /\ JsonCallback(r, "assessment_plan_insert", err)

\* POST /api/assessment-plan-cpt: if (!cpt_codes || cpt_codes.length === 0)
\* return res.json({ success: true, ... }); cpt_codes.map throws when
\* cpt_codes is no array or an element is null; then one bulk INSERT
AssessmentPlanCpt(r, session, cpt_codes) ==
    LET me == Arrive("/api/assessment-plan-cpt", "idle", session)
    IN  /\ Arrives(r)
        /\ IF Unauthorized(session, "student")
           THEN Forbidden(r, me)
           ELSE IF ~cpt_codes.truthy \/ cpt_codes.empty
                THEN Answer(r, me, 200, TRUE) /\ issued' = issued
                ELSE IF ~cpt_codes.isArray \/ ~WellFormed(cpt_codes)
                THEN Throws(r, me) /\ issued' = issued
                ELSE /\ Issue(Queries("assessment_plan_cpt", 1))
                     /\ Await(r, Issued(me, 1), "assessment_plan_cpt_insert")
        /\ UNCHANGED <<cases, uploads>>

AssessmentPlanCptCallback(r, err) ==
    JsonCallback(r, "assessment_plan_cpt_insert", err)

\* POST /api/performed-tests.  fields: case_id, kind and test are all truthy;
\* if (!case_id || !kind || !test) return res.status(400).json(...)
PerformedTests(r, session, fields) ==
    LET me == Arrive("/api/performed-tests", "idle", session)
    IN  /\ Arrives(r)
        /\ IF Unauthorized(session, "student")
           THEN Forbidden(r, me)
           ELSE IF ~fields
                THEN Answer(r, me, 400, FALSE) /\ issued' = issued
                ELSE /\ Issue(Queries("performed_tests", 1))
                     /\ Await(r, Issued(me, 1), "performed_tests_insert")
        /\ UNCHANGED <<cases, uploads>>

PerformedTestsCallback(r, err) == JsonCallback(r, "performed_tests_insert", err)

\* The cases that INSERT INTO cases has added since the server started
Created == {c \in cases : \E i \in 1..Len(NewCaseIds) : c.case_id = NewCaseIds[i]}

\* result.insertId of the next INSERT INTO cases
NextCaseId == NewCaseIds[Cardinality(Created) + 1]

\* POST /wizard/step1: db.query('INSERT INTO cases (case_name, instructions,
\* created_by) VALUES (?, ?, ?)', ...)
WizardStep1(r, session) ==
    LET me == Arrive("/wizard/step1", "idle", session)
    IN  /\ Arrives(r)
        /\ IF Unauthorized(session, "professor")
           THEN Forbidden(r, me)
           ELSE /\ Issue(Queries("cases", 1))
                /\ Await(r, Issued(me, 1), "step1_insert")
        /\ UNCHANGED <<cases, uploads>>

\* The INSERT INTO cases is executed: (err, result) => { if (err) return
\* res.status(500).send('Database error'); res.redirect(`/wizard/step2?
\* case_id=${result.insertId}`) }
WizardStep1Callback(r, err) ==
    /\ CallsBack(r, "step1_insert")
    /\ Cardinality(Created) < Len(NewCaseIds)
    /\ IF err
       THEN Answer(r, Threw(req[r]), 500, FALSE) /\ cases' = cases
       ELSE /\ Answer(r, req[r], 302, FALSE)
            /\ cases' = cases \cup {CaseRow(NextCaseId)}
    /\ UNCHANGED <<issued, uploads>>

\* POST /wizard/step2: db.query(`INSERT INTO patients ...`, ...)
WizardStep2(r, session) ==
    LET me == Arrive("/wizard/step2", "idle", session)
    IN  /\ Arrives(r)
        /\ IF Unauthorized(session, "professor")
           THEN Forbidden(r, me)
           ELSE /\ Issue(Queries("patients", 1))
                /\ Await(r, Issued(me, 1), "step2_patients")
        /\ UNCHANGED <<cases, uploads>>

\* (err) => { if (err) return res.status(500).send('Database error');
\* db.query(`INSERT INTO appointments ...`, ...) }
WizardStep2Patients(r, err) ==
    /\ CallsBack(r, "step2_patients")
    /\ IF err
       THEN Answer(r, Threw(req[r]), 500, FALSE) /\ issued' = issued
       ELSE /\ Issue(Queries("appointments", 1))
            /\ Await(r, Issued(req[r], 1), "step2_appointments")
    /\ UNCHANGED <<cases, uploads>>

\* (err2) => { if (err2) return res.status(500).send('Database error');
\* res.redirect(`/wizard/step3?case_id=${case_id}`) }
WizardStep2Appointments(r, err2) ==
    RedirectCallback(r, "step2_appointments", err2)

\* The upload middleware has stored the files of the request `me`
Uploaded(me) == uploads' = uploads + me.files

\* The handler of POST /wizard/step3, which runs after upload.single(
\* 'patient_avatar'): db.query(`INSERT INTO histories ...`, ...)
Step3Handler(r, me) ==
    IF Unauthorized(me.session, "professor")
    THEN Forbidden(r, me)
    ELSE /\ Issue(Queries("histories", 1))
         /\ Await(r, Issued(me, 1), "step3_histories")

\* POST /wizard/step3.  files: the files that come with the request, at most
\* one.  The middleware stores a file before it calls the handler; without a
\* file the handler is the next thing to change the state.
WizardStep3(r, session, files) ==
    LET me == [Arrive("/wizard/step3", "idle", session) EXCEPT !.files = files]
    IN  /\ Arrives(r)
        /\ IF files > 0
           THEN Await(r, me, "step3_upload") /\ issued' = issued
           ELSE Step3Handler(r, me)
        /\ UNCHANGED <<cases, uploads>>

\* multer's diskStorage has written the file; next() calls the handler
WizardStep3Upload(r) ==
    /\ CallsBack(r, "step3_upload")
    /\ Uploaded(req[r])
    /\ Step3Handler(r, req[r])
    /\ cases' = cases

\* (err) => { if (err) return res.status(500).send('Database error');
\* if (avatarPath) db.query(`UPDATE patients SET avatar = ? ...`, ...);
\* res.redirect(...) }: a failure of the UPDATE is only logged
WizardStep3Histories(r, err) ==
    /\ CallsBack(r, "step3_histories")
    /\ IF err
       THEN Answer(r, Threw(req[r]), 500, FALSE) /\ issued' = issued
       ELSE IF req[r].files > 0
       THEN /\ Issue(Queries("patients", 1))
            /\ Answer(r, Issued(req[r], 1), 302, FALSE)
       ELSE Answer(r, req[r], 302, FALSE) /\ issued' = issued
    /\ UNCHANGED <<cases, uploads>>

\* The handler of POST /wizard/step4, which runs after upload.fields([...]).
\* multipart: the middleware has set req.files; without it
\* req.files['anterior_image'] throws.  db.query(`INSERT INTO exam_sections
\* ...`, ...)
Step4Handler(r, me, multipart) ==
    IF Unauthorized(me.session, "professor")
    THEN Forbidden(r, me)
    ELSE IF ~multipart
    THEN Throws(r, me) /\ issued' = issued
    ELSE /\ Issue(Queries("exam_sections", 1))
         /\ Await(r, Issued(me, 1), "step4_insert")

\* POST /wizard/step4.  files: the files of a multipart request.
WizardStep4(r, session, multipart, files) ==
    LET me == [Arrive("/wizard/step4", "idle", session) EXCEPT !.files = files]
    IN  /\ Arrives(r)
        /\ files > 0 => multipart
        /\ IF files > 0
           THEN Await(r, me, "step4_upload") /\ issued' = issued
           ELSE Step4Handler(r, me, multipart)
        /\ UNCHANGED <<cases, uploads>>

WizardStep4Upload(r) ==
    /\ CallsBack(r, "step4_upload")
    /\ Uploaded(req[r])
    /\ Step4Handler(r, req[r], TRUE)
    /\ cases' = cases

WizardStep4Callback(r, err) == RedirectCallback(r, "step4_insert", err)

\* function toNull(val) { return val && val.trim() !== "" ? val : null }
toNullThrows(val) == val # "falsy" /\ TrimThrows(val)

\* POST /wizard/step5.  date: a date field of the body, each of which goes
\* through toNull.  db.query(`UPDATE exam_sections SET ... WHERE case_id =
\* ?`, ...)
WizardStep5(r, session, date) ==
    LET me == Arrive("/wizard/step5", "idle", session)
    IN  /\ Arrives(r)
        /\ IF Unauthorized(session, "professor")
           THEN Forbidden(r, me)
           ELSE IF toNullThrows(date)
                THEN Throws(r, me) /\ issued' = issued
                ELSE /\ Issue(Queries("exam_sections", 1))
                     /\ Await(r, Issued(me, 1), "step5_update")
        /\ UNCHANGED <<cases, uploads>>

WizardStep5Callback(r, err) == RedirectCallback(r, "step5_update", err)

\* The fields icd10_code_i and plan_i of step 6, for i = 1, 2, ... (the
\* fields beyond the last of them are absent)
CodeFields ==
    UNION {[1..n -> [icd10_code : Chained, plan : Chained]] : n \in 0..MaxItems}

\* The fields of step 6 that the requests of ServerNext carry: a row with a
\* code and a plan, an empty row, a blank code, a code that is no string and
\* a plan that is no string
FewCodeFields ==
    LET rows == {[icd10_code |-> "text", plan |-> "text"],
                 [icd10_code |-> "nullish", plan |-> "nullish"],
                 [icd10_code |-> "blank", plan |-> "text"],
                 [icd10_code |-> "nonstring", plan |-> "nullish"],
                 [icd10_code |-> "text", plan |-> "nonstring"]}
    IN  UNION {[1..n -> rows] : n \in 0..MaxItems}

\* body.cpt_codes of step 6; codes: the codes between the commas of a text
\* that are not blank
CptInputs ==
    {[value |-> v, codes |-> 0] : v \in Guarded}
    \cup {[value |-> "text", codes |-> n] : n \in 1..MaxItems}

\* for (let i = 1; i <= 10; i++) { icd10_code = ...?.trim(); plan =
\* ...?.trim(); if (icd10_code && icd10_code !== "") db.query(`INSERT INTO
\* assessment_plan ...`) }: the statements issued, and whether a trim() threw
RECURSIVE Loop(_)
Loop(fields) ==
    IF fields = <<>> THEN [issued |-> 0, threw |-> FALSE]
    ELSE IF TrimThrows(Head(fields).icd10_code) \/ TrimThrows(Head(fields).plan)
    THEN [issued |-> 0, threw |-> TRUE]
    ELSE LET rest == Loop(Tail(fields))
         IN  [rest EXCEPT !.issued =
                    @ + IF Filled(Head(fields).icd10_code) THEN 1 ELSE 0]

\* POST /wizard/step6: the loop over the ICD-10 fields, then if (cpt_codes &&
\* cpt_codes.trim() !== "") one INSERT INTO codes for each code; failures of
\* the statements are only logged and res.send answers 200 before any calls
\* back
WizardStep6(r, session, fields, cpt_codes) ==
    LET me == Arrive("/wizard/step6", "idle", session)
        loop == Loop(fields)
        plans == Queries("assessment_plan", loop.issued)
    IN  /\ Arrives(r)
        /\ IF Unauthorized(session, "professor")
           THEN Forbidden(r, me)
           ELSE IF loop.threw
                   \/ (cpt_codes.value # "falsy" /\ TrimThrows(cpt_codes.value))
                THEN Issue(plans) /\ Throws(r, Issued(me, loop.issued))
                ELSE /\ Issue([plans EXCEPT !["codes"] = cpt_codes.codes])
                     /\ Answer(r, Issued(me, loop.issued + cpt_codes.codes),
                               200, FALSE)
        /\ UNCHANGED <<cases, uploads>>

\* The values of a body field that the handler reads after the role check:
\* a request that the check rejects has the field unread, and one value
\* stands for all
Read(session, role, inputs) ==
    IF Unauthorized(session, role) THEN {CHOOSE v \in inputs : TRUE} ELSE inputs

\* The requests that the write endpoints of server.js serve on a server
\* started on an empty table
ServerNext ==
    \E r \in Slots :
        \/ \E session \in SessionRoles :
              \/ \E testing \in BOOLEAN : \E interpretations \in ListInputs :
                    StudentNotes(r, session, testing, interpretations)
              \/ \E assessments \in ListInputs :
                    AssessmentPlan(r, session, assessments)
              \/ \E cpt_codes \in ListInputs :
                    AssessmentPlanCpt(r, session, cpt_codes)
              \/ \E fields \in BOOLEAN : PerformedTests(r, session, fields)
              \/ WizardStep1(r, session)
              \/ WizardStep2(r, session)
              \/ \E files \in 0..1 : WizardStep3(r, session, files)
              \/ \E multipart \in BOOLEAN : \E files \in 0..MaxItems :
                    WizardStep4(r, session, multipart, files)
              \/ \E date \in Guarded : WizardStep5(r, session, date)
              \/ \E fields \in Read(session, "professor", FewCodeFields) :
                    \E cpt_codes \in Read(session, "professor", CptInputs) :
                       WizardStep6(r, session, fields, cpt_codes)
        \/ \E err \in BOOLEAN :
              \/ StudentNotesCallback(r, err)
              \/ InterpretationsCallback(r, err)
              \/ AssessmentPlanCallback(r, err)
              \/ AssessmentPlanCptCallback(r, err)
              \/ PerformedTestsCallback(r, err)
              \/ WizardStep1Callback(r, err)
              \/ WizardStep2Patients(r, err)
              \/ WizardStep2Appointments(r, err)
              \/ WizardStep3Histories(r, err)
              \/ WizardStep4Callback(r, err)
              \/ WizardStep5Callback(r, err)
        \/ WizardStep3Upload(r)
        \/ WizardStep4Upload(r)

ServerSpec == Init /\ [][ServerNext]_vars

----------------------------------------------------------------------------
(* catch (err): a statement that fails throws, and the handler answers 500 *)

\* Variant: a failure of the SELECT that follows ensure's INSERT takes the
\* inserted row out of the table again
StorageFailure_rollsBack(r) ==
    /\ InFlight(r)
    /\ Catch(r, Threw(req[r]))
    /\ case_attempts' =
          IF req[r].pc = "ensure_created"
          THEN SelectSeq(case_attempts,
                         LAMBDA row : row.attempt_id # req[r].insertId)
          ELSE case_attempts
    /\ UNCHANGED <<cases, issued, uploads, now, served>>

StorageFailure(r) ==
    /\ InFlight(r)
    /\ Catch(r, Threw(req[r]))
    /\ UNCHANGED <<case_attempts, cases, issued, uploads, now, served>>

----------------------------------------------------------------------------
(* Specifications *)

\* ids a client can put in the URL: those of the table, and one that is not there
AttemptIdInputs == 1..(Len(case_attempts) + 1)

Arrival(r) ==
    \/ \E kind \in Kinds, s \in Sessions : Unauthenticated(r, kind, s)
    \/ \E s \in Sessions, u \in Users, lp \in PageInputs :
          EnsureMissingCaseId(r, s, u, NoCase, lp)
    \/ \E kind \in Kinds, s \in Sessions : HandlerArrive(r, kind, s)

Statement(r) ==
    \/ \E u \in Users, c \in Cases, lp \in PageInputs : EnsureSelect(r, u, c, lp)
    \/ EnsureUpdate(r)
    \/ EnsureInsert(r)
    \/ EnsureCreated(r)
    \/ \E u \in Users, c \in Cases : ByCaseSelect(r, u, c)
    \/ \E u \in Users, a \in AttemptIdInputs, s \in FewSectionInputs :
          SaveSelect(r, u, a, s)
    \/ \E d \in DataInputs, lp \in PageInputs : SaveUpdate(r, d, lp)
    \/ \E u \in Users, a \in AttemptIdInputs, p \in PdfInputs :
          CompleteSelect(r, u, a, p)
    \/ CompleteUpdate(r)
    \/ \E u \in Users : MyProgressSelect(r, u)
    \/ StorageFailure(r)

\* Requests arrive at any time and their statements interleave.
Next == \E r \in Slots : Arrival(r) \/ Statement(r)

Spec == Init /\ [][Next]_vars

\* Requests executed one at a time: a request arrives only when no other
\* request is being handled.
Quiet == \A r \in Slots : Free(r)

SeqNext == \E r \in Slots : (Quiet /\ Arrival(r)) \/ Statement(r)

SeqSpec == Init /\ [][SeqNext]_vars

\* The same two, for a server started on a table that holds an attempt
ResumeSpec == ResumeInit /\ [][Next]_vars

ResumeSeqSpec == ResumeInit /\ [][SeqNext]_vars

\* Requests that interleave, for a server started on the table of the race
RaceSpec == RaceInit /\ [][Next]_vars

\* PUT /case-attempts/:attemptId/save with every section input, and GET
\* /case-attempts/by-case/:caseId, which reads an attempt back, on a table
\* that holds the attempts of two users.  A save that finds no attempt never
\* looks at its section, and an UPDATE that the database cannot parse never
\* binds data and lastPage: such a request carries none.
SaveNext ==
    \E r \in Slots :
        \/ \E kind \in {"save", "by-case"}, s \in Sessions : HandlerArrive(r, kind, s)
        \/ \E u \in Users, a \in AttemptIdInputs, s \in SectionInputs :
              /\ req[r].pc = "save_select"
              /\ getAttemptByIdForUser(a, u) = NoRow => s = Null
              /\ SaveSelect(r, u, a, s)
        \/ \E d \in DataInputs, lp \in PageInputs :
              /\ req[r].pc = "save_update"
              /\ req[r].section \notin Sections => d = Null /\ lp = Null
              /\ SaveUpdate(r, d, lp)
        \/ \E u \in Users : ByCaseSelect(r, u, "c1")
        \/ StorageFailure(r)

SaveSpec == SaveInit /\ [][SaveNext]_vars

\* GET /my-progress alone, applied to the tables of ListInit
ListNext ==
    \E r \in Slots :
        \/ \E s \in Sessions : HandlerArrive(r, "my-progress", s)
        \/ \E u \in Users : MyProgressSelect(r, u)
        \/ StorageFailure(r)

ListSpec == ListInit /\ [][ListNext]_vars

\* The same with DELETE /api/cases/:id, which any client may call between two
\* listings
DeleteNext ==
    \/ ListNext
    \/ \E r \in Slots :
          \/ \E s \in Sessions, c \in Cases : DeleteCaseRequest(r, s, c)
          \/ DeleteCase(r)
          \/ DeleteCaseFailure(r)

DeleteSpec == ListInit /\ [][DeleteNext]_vars

----------------------------------------------------------------------------
(* Properties *)

\* The request of slot r is answered in this step; last' is its response.
Answered(r) == req[r].pc # "idle" /\ req'[r].pc = "idle"

\* The request of slot r as its step leaves it, with the inputs it has read
Me(r) == IF req'[r].pc = "idle" THEN last' ELSE req'[r]

\* The columns of a COMPLETED attempt that must not change
Locked(row) ==
    <<row.history_json, row.exam_json, row.assessment_json, row.plan_json,
      row.attachments_json, row.last_page, row.pdf_url, row.completed_at>>

\* Rows of the table held by the pair (caseId, userId)
RowsOfPair(caseId, userId) ==
    {i \in AttemptIds : case_attempts[i].case_id = caseId
                        /\ case_attempts[i].user_id = userId}

\* C1: once a row's status is COMPLETED, no later statement changes its five
\* section columns, its last_page, its pdf_url or its completed_at.
C1_CompletedImmutable ==
    [][\A i \in AttemptIds :
          case_attempts[i].status = "COMPLETED"
          => Locked(case_attempts'[i]) = Locked(case_attempts[i])]_vars

\* C2: with requests executed one at a time, no two rows of case_attempts have
\* the same (case_id, user_id).
C2_OneRowPerPair ==
    \A i, j \in AttemptIds :
        (case_attempts[i].case_id = case_attempts[j].case_id
         /\ case_attempts[i].user_id = case_attempts[j].user_id) => i = j

\* C2 witness: a second ensure for a pair was answered with the pair's only row,
\* while another pair has a row of its own.
C2_Witness ==
    /\ last.kind = "ensure" /\ last.status = 200 /\ last.insertId = 0
    /\ Cardinality(RowsOfPair(last.caseId, last.user)) = 1
    /\ Len(case_attempts) = 2

\* What C3 requires of a state
C3_BothInserted ==
    \A r, s \in Slots :
        (r # s /\ req[r].pc = "ensure_created" /\ req[s].pc = "ensure_created"
         /\ req[r].caseId = req[s].caseId /\ req[r].user = req[s].user)
        => /\ req[r].insertId # req[s].insertId
           /\ {req[r].insertId, req[s].insertId} \subseteq
                 RowsOfPair(req[r].caseId, req[r].user)

\* What C3 requires of a step
C3_ReturnsInserted ==
    \A r \in Slots :
        (req[r].pc = "ensure_created" /\ Answered(r) /\ last'.status = 200)
        => last'.body.attempt.attempt_id = req[r].insertId

\* C3: two ensure requests for the same pair that both found no attempt both
\* insert: the table then holds two rows for the pair, and each request answers
\* with the row it inserted, so the two attempt_ids differ.
C3_EnsureRace == []C3_BothInserted /\ [][C3_ReturnsInserted]_vars

\* C3 witness: both requests of the race have inserted; the pair has two rows.
C3_Witness ==
    /\ req[1].pc = "ensure_created" /\ req[2].pc = "ensure_created"
    /\ req[1].caseId = req[2].caseId /\ req[1].user = req[2].user
    /\ Cardinality(RowsOfPair(req[1].caseId, req[1].user)) = 2

\* The request of slot r takes a step
Steps(r) == req'[r] # req[r]

\* The request of slot r is answered 500 in this step (a statement failed)
Fails(r) == Answered(r) /\ last'.status = 500

\* What C4 requires of a step
C4_Step ==
    \A r \in Slots :
        /\ (req[r].pc = "ensure_select" /\ Steps(r) /\ ~Fails(r)
            /\ RowsOfPair(Me(r).caseId, Me(r).user) = {})
           => (req'[r].pc = "ensure_insert" /\ case_attempts' = case_attempts)
        /\ (req[r].pc = "ensure_insert" /\ Steps(r) /\ ~Fails(r))
           => /\ Len(case_attempts') = Len(case_attempts) + 1
              /\ \A i \in AttemptIds : case_attempts'[i] = case_attempts[i]
              /\ LET new == case_attempts'[Len(case_attempts')]
                 IN  /\ new.attempt_id = Len(case_attempts')
                     /\ new.case_id = req[r].caseId
                     /\ new.user_id = req[r].user
                     /\ new.status = "IN_PROGRESS"
                     /\ new.last_page = IF req[r].lastPage = Null THEN "history"
                                        ELSE req[r].lastPage
                     /\ req'[r].insertId = new.attempt_id
              /\ req[r].writes = 0 /\ req'[r].writes = 1
        /\ (req[r].pc = "ensure_created" /\ Steps(r) /\ ~Fails(r))
           => /\ Answered(r) /\ last'.status = 200
              /\ last'.body.attempt = case_attempts[req[r].insertId]
              /\ last'.body.attempt.attempt_id = req[r].insertId
              /\ last'.body.attempt.case_id = req[r].caseId
              /\ last'.body.attempt.user_id = req[r].user
              /\ last'.writes = 1
              /\ case_attempts' = case_attempts

\* C4: an ensure whose lookup finds no attempt for its pair goes on to insert;
\* its INSERT appends exactly one row, with the request's pair, status
\* IN_PROGRESS and last_page the supplied lastPage or 'history'; and the attempt
\* it answers with is that row.
C4_EnsureCreates == [][C4_Step]_vars

\* C4 witness: an ensure without lastPage was answered with the row it created,
\* the only row of its pair, in progress on 'history'.
C4_Witness ==
    /\ last.kind = "ensure" /\ last.status = 200 /\ last.insertId # 0
    /\ last.lastPage = Null
    /\ last.body.attempt.last_page = "history"
    /\ last.body.attempt.status = "IN_PROGRESS"
    /\ RowsOfPair(last.caseId, last.user) = {last.insertId}

\* What C5 requires of a step
C5_Step ==
    \A r \in Slots :
        (req[r].kind = "ensure" /\ Answered(r) /\ last'.status \in {200, 403}
         /\ last.kind = "ensure" /\ last.status \in {200, 403}
         /\ last.user = last'.user /\ last.caseId = last'.caseId)
        => /\ last'.body.attempt.attempt_id = last.body.attempt.attempt_id
           /\ last'.insertId = 0
           /\ Len(case_attempts') = Len(case_attempts)

\* C5: with requests executed one at a time, an ensure that directly follows an
\* ensure for the same pair is answered with the same attempt_id and inserts
\* no row.
C5_EnsureTwice == [][C5_Step]_vars

\* C5 witness: the second of two requests was an ensure answered with attempt 1,
\* the only row of the table, without inserting: the first one created it.
C5_Witness ==
    /\ served = 2 /\ Quiet
    /\ last.kind = "ensure" /\ last.status = 200 /\ last.insertId = 0
    /\ Len(case_attempts) = 1
    /\ last.body.attempt.attempt_id = 1

\* What C6 requires of a step
C6_Step ==
    /\ Len(case_attempts') >= Len(case_attempts)
    /\ \A i \in 1..Len(case_attempts') :
          IF i \in AttemptIds
          THEN /\ case_attempts'[i].status \in {"IN_PROGRESS", "COMPLETED"}
               /\ case_attempts[i].status = "COMPLETED"
                  => case_attempts'[i].status = "COMPLETED"
          ELSE case_attempts'[i].status = "IN_PROGRESS"

\* C6: a row is created IN_PROGRESS, a COMPLETED row stays COMPLETED, and no
\* row has another status or leaves the table.
C6_StatusOneWay == [][C6_Step]_vars

\* C6 witness: a COMPLETED row that was written again after its completion.
C6_Witness ==
    \E i \in AttemptIds :
        /\ case_attempts[i].status = "COMPLETED"
        /\ case_attempts[i].updated_at > case_attempts[i].completed_at

\* What C7 requires of a step
C7_Step ==
    \A r \in Slots :
        /\ (req[r].pc \in {"ensure_select", "by_case_select"} /\ Steps(r) /\ ~Fails(r)
            /\ RowsOfPair(Me(r).caseId, Me(r).user) # {}
            /\ \A i \in RowsOfPair(Me(r).caseId, Me(r).user) :
                  case_attempts[i].status = "COMPLETED")
           => /\ Answered(r) /\ last'.status = 403
              /\ last'.body.error = "CASE_COMPLETED"
              /\ last'.body.attempt.attempt_id \in RowsOfPair(last'.caseId, last'.user)
              /\ last'.body.attempt = case_attempts[last'.body.attempt.attempt_id]
              /\ last'.writes = 0 /\ last'.insertId = 0
              /\ case_attempts' = case_attempts
        /\ (req[r].pc = "save_select" /\ Steps(r) /\ ~Fails(r)
            /\ Me(r).attemptId \in AttemptIds
            /\ case_attempts[Me(r).attemptId].user_id = Me(r).user
            /\ case_attempts[Me(r).attemptId].status = "COMPLETED")
           => /\ Answered(r) /\ last'.status = 403
              /\ last'.body.error = "CASE_COMPLETED"
              /\ last'.writes = 0
              /\ case_attempts' = case_attempts

\* C7: when the caller's attempt is COMPLETED, the lookup of ensure and by-case
\* (for its case) and of save (for its id) is answered 403 CASE_COMPLETED, the
\* request has written nothing and inserts no row, and ensure and by-case carry
\* the completed attempt in the payload.
C7_CompletedBlocks == [][C7_Step]_vars

\* C7 witness: an ensure answered 403 with the caller's completed attempt.
C7_Witness ==
    /\ last.kind = "ensure" /\ last.status = 403
    /\ last.body.error = "CASE_COMPLETED"
    /\ last.body.attempt.status = "COMPLETED"
    /\ RowsOfPair(last.caseId, last.user) = {last.body.attempt.attempt_id}

\* What C8 requires of a step
C8_Step ==
    \A r \in Slots :
        (req[r].pc = "complete_select" /\ Steps(r) /\ ~Fails(r)
         /\ Me(r).attemptId \in AttemptIds
         /\ case_attempts[Me(r).attemptId].user_id = Me(r).user
         /\ case_attempts[Me(r).attemptId].status = "COMPLETED")
        => /\ Answered(r) /\ last'.status = 200
           /\ last'.body = [NoBody EXCEPT !.ok = TRUE, !.alreadyCompleted = TRUE]
           /\ last'.writes = 0
           /\ case_attempts' = case_attempts

\* C8: a complete whose lookup finds the caller's attempt COMPLETED is answered
\* {ok:true, alreadyCompleted:true} and leaves the table as it is, whatever
\* pdfUrl it carries.
C8_CompleteIdempotent == [][C8_Step]_vars

\* C8 witness: a complete with pdfUrl p1 answered alreadyCompleted for an
\* attempt that was completed without a pdf_url.
C8_Witness ==
    /\ last.kind = "complete" /\ last.status = 200 /\ last.body.alreadyCompleted
    /\ last.pdfUrl = "p1"
    /\ case_attempts[last.attemptId].status = "COMPLETED"
    /\ case_attempts[last.attemptId].pdf_url = Null

\* What C9 requires of a step
C9_Step ==
    /\ \A r \in Slots :
          (req[r].pc = "complete_update" /\ Answered(r) /\ last'.status = 200)
          => case_attempts[req[r].attemptId].status = "IN_PROGRESS"
    /\ \A i \in AttemptIds :
          case_attempts[i].status = "COMPLETED"
          => /\ case_attempts'[i].completed_at = case_attempts[i].completed_at
             /\ case_attempts'[i].pdf_url = case_attempts[i].pdf_url

\* C9: the completing UPDATE is applied to an attempt at most once: it never
\* executes on a row that is already COMPLETED, and the completed_at and
\* pdf_url of a COMPLETED row never change.
C9_CompletedOnce == [][C9_Step]_vars

\* The text a save stores for the data of its request
Stored(me) == JSONstringify(Or(me.data, EmptyObject))

\* What C10 requires of a step
C10_Step ==
    \A r \in Slots :
        /\ (req[r].pc = "save_update" /\ Answered(r) /\ last'.status = 200)
           => LET id == req[r].attemptId
                  col == last'.section \o "_json"
              IN  /\ last'.section \in Sections
                  /\ Len(case_attempts') = Len(case_attempts)
                  /\ case_attempts'[id][col] = Stored(last')
                  /\ \A c \in JsonColumns \ {col} :
                        case_attempts'[id][c] = case_attempts[id][c]
                  /\ \A j \in AttemptIds \ {id} :
                        case_attempts'[j] = case_attempts[j]
        /\ (req[r].pc = "by_case_select" /\ Answered(r) /\ last'.status = 200
            /\ last'.body.attempt # NoRow)
           => /\ last'.body.attempt.attempt_id \in AttemptIds
              /\ last'.body.attempt = case_attempts[last'.body.attempt.attempt_id]

\* C10: the UPDATE of a successful save with section s writes the JSON text of
\* the supplied data (of {} when none is supplied) into the column s_json of
\* the attempt and changes no other section column of that row and no other
\* row; an attempt that by-case reads back is the row as the table holds it,
\* so its section columns are what the saves wrote.
C10_SaveOneColumn == [][C10_Step]_vars

\* C10 witness: u1 saved d1 into exam of attempt 1 and read the attempt back:
\* the answer's exam_json is the JSON text of d1, its other section columns
\* hold nothing, and attempt 2, which is u2's, is as it was created.
C10_Witness ==
    /\ last.kind = "by-case" /\ last.status = 200 /\ last.user = "u1"
    /\ last.body.attempt.attempt_id = 1
    /\ last.body.attempt.exam_json = JSONstringify("d1")
    /\ last.body.attempt.history_json = Null
    /\ Len(case_attempts) = 2
    /\ case_attempts[2] =
          NewRow(2, "c1", "u2", Or(Null, "history"), "IN_PROGRESS", NullTime + 2)

\* The slot r's save is answered {ok:true} in this step, which executes its UPDATE
SaveSucceeds(r) == req[r].pc = "save_update" /\ Answered(r) /\ last'.status = 200

\* What C11 requires of the row `old` that a successful save turns into `new`,
\* apart from updated_at
C11_Frame(old, new) ==
    /\ new.last_page = IF last'.lastPage # Null THEN last'.lastPage ELSE old.last_page
    /\ new.status = old.status
    /\ new.pdf_url = old.pdf_url
    /\ new.completed_at = old.completed_at
    /\ new.case_id = old.case_id
    /\ new.user_id = old.user_id
    /\ new.attempt_id = old.attempt_id
    /\ new.started_at = old.started_at

\* C11 as stated: a successful save sets last_page to the supplied lastPage and
\* keeps it when none is supplied, changes no status, pdf_url, completed_at,
\* case_id or user_id, and leaves updated_at strictly later than it was.
C11_SaveAdvances ==
    [][\A r \in Slots :
          SaveSucceeds(r)
          => LET old == case_attempts[req[r].attemptId]
                 new == case_attempts'[req[r].attemptId]
             IN  C11_Frame(old, new) /\ new.updated_at > old.updated_at]_vars

\* C11, amended: as above, but updated_at is set to the clock value NOW() read
\* for the UPDATE, which is never earlier than the previous value and equals it
\* when no tick of the clock separates the two writes.
C11_SaveRefreshes ==
    [][\A r \in Slots :
          SaveSucceeds(r)
          => LET old == case_attempts[req[r].attemptId]
                 new == case_attempts'[req[r].attemptId]
             IN  /\ C11_Frame(old, new)
                 /\ new.updated_at = now'
                 /\ new.updated_at >= old.updated_at]_vars

\* C11 witness: a save with lastPage "exam" was answered ok; the attempt, created
\* on 'history', is now on "exam", still in progress, and was updated after it
\* was started.
C11_Witness ==
    /\ last.kind = "save" /\ last.status = 200 /\ last.lastPage = "exam"
    /\ last.existing.last_page = "history"
    /\ case_attempts[last.attemptId].last_page = "exam"
    /\ case_attempts[last.attemptId].status = "IN_PROGRESS"
    /\ case_attempts[last.attemptId].updated_at > case_attempts[last.attemptId].started_at

\* The slot r's request executes its lookup in this step, and the lookup does
\* not fail
LooksUp(r, pc) == req[r].pc = pc /\ Steps(r) /\ ~Fails(r)

\* The request of slot r addresses an attempt of its user that is in `status`
OwnAttemptIs(r, status) ==
    /\ Me(r).attemptId \in AttemptIds
    /\ case_attempts[Me(r).attemptId].user_id = Me(r).user
    /\ case_attempts[Me(r).attemptId].status = status

\* C12: a save whose lookup finds the caller's attempt IN_PROGRESS and whose
\* section is none of history, exam, assessment, plan, attachments (a missing
\* section included) is answered 400 BAD_SECTION there, having written nothing,
\* and the table is unchanged.
C12_BadSection ==
    [][\A r \in Slots :
          (LooksUp(r, "save_select") /\ OwnAttemptIs(r, "IN_PROGRESS")
           /\ Me(r).section \notin Sections)
          => /\ Answered(r) /\ last'.status = 400
             /\ last'.body = Error("BAD_SECTION")
             /\ last'.writes = 0
             /\ case_attempts' = case_attempts]_vars

\* C13: a save or a complete whose lookup is for an attemptId that the table
\* does not hold, or that another user holds, is answered 404 NOT_FOUND there,
\* with the same body in all four cases, having written nothing, and the table
\* is unchanged.
C13_NotFound ==
    [][\A r \in Slots :
          ((LooksUp(r, "save_select") \/ LooksUp(r, "complete_select"))
           /\ (Me(r).attemptId \in AttemptIds
                  => case_attempts[Me(r).attemptId].user_id # Me(r).user))
          => /\ Answered(r) /\ last'.status = 404
             /\ last'.body = Error("NOT_FOUND")
             /\ last'.writes = 0
             /\ case_attempts' = case_attempts]_vars

\* C13 witness: a complete addressed to an attempt of another user was answered
\* 404, and that attempt is still in progress.
C13_Witness ==
    /\ last.kind = "complete" /\ last.status = 404
    /\ last.attemptId \in AttemptIds
    /\ case_attempts[last.attemptId].user_id # last.user
    /\ case_attempts[last.attemptId].status = "IN_PROGRESS"

\* What C14 requires of a step
C14_Step ==
    \A r \in Slots :
        /\ (req[r].pc = "by_case_select" /\ Steps(r))
           => /\ case_attempts' = case_attempts
              /\ Answered(r) /\ last'.writes = 0 /\ last'.insertId = 0
        /\ (LooksUp(r, "by_case_select")
            /\ RowsOfPair(Me(r).caseId, Me(r).user) = {})
           => /\ last'.status = 200
              /\ last'.body = [NoBody EXCEPT !.attempt = NoRow]
        /\ (LooksUp(r, "by_case_select")
            /\ RowsOfPair(Me(r).caseId, Me(r).user) # {}
            /\ \A i \in RowsOfPair(Me(r).caseId, Me(r).user) :
                  case_attempts[i].status = "IN_PROGRESS")
           => /\ last'.status = 200
              /\ last'.body.error = Null
              /\ last'.body.attempt.attempt_id \in RowsOfPair(last'.caseId, last'.user)
              /\ last'.body.attempt = case_attempts[last'.body.attempt.attempt_id]

\* C14: by-case executes one statement, its lookup, and in every outcome the
\* table is unchanged and the request has written nothing; when the caller has
\* no attempt for the case it answers 200 with attempt null, and when the
\* caller's attempt is IN_PROGRESS it answers 200 with that row.
C14_ByCaseReadOnly == [][C14_Step]_vars

\* C14 witness: a by-case for a case the caller has not attempted was answered
\* with attempt null, and the table, which holds another attempt, has no row for
\* the pair.
C14_Witness ==
    /\ last.kind = "by-case" /\ last.status = 200
    /\ last.body.attempt = NoRow
    /\ RowsOfPair(last.caseId, last.user) = {}
    /\ Len(case_attempts) = 1

\* The pair of the request of slot r has rows, all of them in `status`
PairIs(r, status) ==
    /\ RowsOfPair(Me(r).caseId, Me(r).user) # {}
    /\ \A i \in RowsOfPair(Me(r).caseId, Me(r).user) : case_attempts[i].status = status

\* What C15 requires of a step
C15_Step ==
    \A r \in Slots :
        /\ (req[r].kind = "ensure" /\ Steps(r))
           => /\ Me(r).writes <= 1
              /\ case_attempts' # case_attempts
                 => (req[r].writes = 0 /\ Me(r).writes = 1)
              /\ Len(case_attempts') # Len(case_attempts)
                 => req[r].pc = "ensure_insert"
        /\ (LooksUp(r, "ensure_select") /\ PairIs(r, "IN_PROGRESS"))
           => /\ case_attempts' = case_attempts
              /\ Me(r).existing.attempt_id \in RowsOfPair(Me(r).caseId, Me(r).user)
              /\ Me(r).existing = case_attempts[Me(r).existing.attempt_id]
              /\ IF Me(r).lastPage = Null
                 THEN /\ Answered(r) /\ last'.status = 200
                      /\ last'.body = [NoBody EXCEPT !.attempt = last'.existing]
                      /\ last'.writes = 0
                 ELSE req'[r].pc = "ensure_update"
        /\ (req[r].pc = "ensure_update" /\ Steps(r) /\ ~Fails(r))
           => LET id == req[r].existing.attempt_id
              IN  /\ Answered(r) /\ last'.status = 200
                  /\ last'.writes = 1 /\ last'.insertId = 0
                  /\ Len(case_attempts') = Len(case_attempts)
                  /\ case_attempts'[id] =
                        [case_attempts[id] EXCEPT !.last_page = req[r].lastPage,
                                                  !.updated_at = now']
                  /\ \A j \in AttemptIds \ {id} : case_attempts'[j] = case_attempts[j]
                  /\ last'.body.attempt.attempt_id = id
                  /\ last'.body.attempt.last_page = case_attempts'[id].last_page

\* C15: an ensure executes at most one INSERT or UPDATE, and only its INSERT
\* adds a row.  When its lookup finds the pair's attempt IN_PROGRESS it never
\* inserts: without a lastPage it answers with the row and writes nothing;
\* with a lastPage it executes one UPDATE that sets last_page and updated_at
\* of that row only, and the attempt it answers with carries that last_page.
C15_EnsureOneWrite == [][C15_Step]_vars

\* C15 witness: an ensure with lastPage "exam" on an attempt that was on
\* 'history' was answered after one UPDATE and no INSERT, with last_page "exam"
\* in the payload and in the table.
C15_Witness ==
    /\ last.kind = "ensure" /\ last.status = 200 /\ last.lastPage = "exam"
    /\ last.writes = 1 /\ last.insertId = 0
    /\ last.existing.last_page = "history"
    /\ last.body.attempt.last_page = "exam"
    /\ case_attempts[last.body.attempt.attempt_id].last_page = "exam"

\* What C16 requires of a step
C16_Step ==
    \A r \in Slots :
        (req[r].pc = "my_progress_select" /\ Answered(r) /\ last'.status = 200)
        => LET list == last'.body.attempts
           IN  /\ \A i \in 1..Len(list) :
                     /\ list[i].attempt_id \in AttemptIds
                     /\ case_attempts[list[i].attempt_id].user_id = last'.user
                     /\ list[i].status = case_attempts[list[i].attempt_id].status
                     /\ list[i].updated_at = case_attempts[list[i].attempt_id].updated_at
                     /\ list[i].status \in {"IN_PROGRESS", "COMPLETED"}
               /\ \A i, j \in 1..Len(list) :
                     i < j => /\ ~(list[i].status = "COMPLETED"
                                   /\ list[j].status = "IN_PROGRESS")
                              /\ list[i].status = list[j].status
                                 => list[i].updated_at >= list[j].updated_at

\* C16: every entry of a my-progress answer is an attempt of the caller, with
\* its status and updated_at; no COMPLETED entry comes before an IN_PROGRESS
\* one, and of two entries with the same status the earlier one in the list
\* was not updated before the later one.
C16_ProgressOrder == [][C16_Step]_vars

\* C16 witness: a my-progress answer of two entries, an attempt in progress
\* followed by a completed one that was updated after it, while the table
\* holds an attempt of the other user too.
C16_Witness ==
    /\ last.kind = "my-progress" /\ last.status = 200
    /\ Len(last.body.attempts) = 2
    /\ last.body.attempts[1].status = "IN_PROGRESS"
    /\ last.body.attempts[2].status = "COMPLETED"
    /\ last.body.attempts[1].updated_at < last.body.attempts[2].updated_at
    /\ \E i \in AttemptIds : case_attempts[i].user_id # last.user

\* The request that arrives in this step (one that is answered on arrival
\* never occupies a slot)
Arrived ==
    IF req' = req THEN last'
    ELSE req'[CHOOSE r \in Slots : req'[r] # req[r]]

\* What C17 requires of a step
C17_Step ==
    (served' # served /\ Arrived.session # "user")
    => /\ Arrived.kind \in Kinds
       /\ Arrived.pc = "done"
       /\ Arrived.status = 401
       /\ Arrived.body = Error("Not authenticated")
       /\ Arrived.writes = 0
       /\ req' = req
       /\ case_attempts' = case_attempts /\ cases' = cases /\ now' = now

\* C17: a request to ensure, by-case, save, complete or my-progress whose
\* session has no user, or a user without an id, is answered 401 on arrival:
\* it never enters the handler, so it executes no statement, and the tables
\* are unchanged.
C17_Unauthenticated == [][C17_Step]_vars

\* C17 witness: a my-progress request whose session user has no id was
\* answered 401 while another request was between two statements.
C17_Witness ==
    /\ last.kind = "my-progress" /\ last.session = "no id" /\ last.status = 401
    /\ \E r \in Slots : InFlight(r) /\ req[r].writes = 1

\* What C18 requires of a step
C18_Step ==
    \A r \in Slots :
        (InFlight(r) /\ Me(r).err)
        => /\ Answered(r)
           /\ last'.status = 500 /\ last'.body = Error("SERVER_ERROR")
           /\ last'.kind = req[r].kind
           /\ last'.writes = req[r].writes
           /\ \A s \in Slots : s # r => req'[s] = req[s]
           /\ served' = served
           /\ case_attempts' = case_attempts /\ cases' = cases

\* C18: a statement of ensure, by-case, save, complete or my-progress that
\* fails ends its request at once with 500 SERVER_ERROR: the request leaves
\* its slot without executing the statement again or any further statement,
\* and the step changes neither the tables, nor the other requests in flight,
\* nor the server's capacity to accept requests.
C18_StorageFailure == [][C18_Step]_vars

\* C18 witness: the SELECT that follows ensure's INSERT failed and the request
\* was answered 500, while another request, still in flight, has executed a
\* statement since it arrived.
C18_Witness ==
    /\ last.err /\ last.status = 500 /\ last.kind = "ensure" /\ last.writes = 1
    /\ \E r \in Slots : InFlight(r) /\ req[r].kind = "save" /\ req[r].existing # NoRow

\* The last answered request is an ensure whose INSERT succeeded and whose
\* follow-up SELECT failed
CreatedThenFailed ==
    last.kind = "ensure" /\ last.err /\ last.status = 500 /\ last.insertId # 0

\* The request of slot r is an ensure for the pair of that request
SamePair(r) == Me(r).caseId = last.caseId /\ Me(r).user = last.user

\* What C19 requires of a step
C19_Step ==
    \A r \in Slots :
        /\ (req[r].pc = "ensure_created" /\ Steps(r) /\ Me(r).err)
           => /\ Answered(r)
              /\ last'.status = 500 /\ last'.body = Error("SERVER_ERROR")
              /\ case_attempts' = case_attempts
              /\ last'.insertId \in AttemptIds
              /\ LET row == case_attempts'[last'.insertId]
                 IN  /\ row.attempt_id = last'.insertId
                     /\ row.case_id = last'.caseId /\ row.user_id = last'.user
                     /\ row.status = "IN_PROGRESS"
        /\ (CreatedThenFailed /\ req[r].pc = "ensure_select" /\ Steps(r)
            /\ ~Me(r).err /\ SamePair(r))
           => /\ case_attempts' = case_attempts
              /\ Me(r).existing = case_attempts[last.insertId]
              /\ IF Truthy(Me(r).lastPage)
                 THEN req'[r].pc = "ensure_update"
                 ELSE /\ Answered(r) /\ last'.status = 200
                      /\ last'.body.attempt = case_attempts[last.insertId]
                      /\ last'.writes = 0
        /\ (CreatedThenFailed /\ req[r].pc = "ensure_update" /\ Steps(r)
            /\ ~Me(r).err /\ req[r].caseId = last.caseId /\ req[r].user = last.user)
           => /\ Answered(r) /\ last'.status = 200
              /\ last'.body.attempt.attempt_id = last.insertId
              /\ Len(case_attempts') = Len(case_attempts)

\* C19: with requests executed one at a time, when the SELECT that follows
\* ensure's INSERT fails the request is answered 500 SERVER_ERROR and the
\* inserted IN_PROGRESS row stays in case_attempts; the next ensure for the
\* same pair finds that row and answers 200 with it, inserting nothing.
C19_NoRollback == [][C19_Step]_vars

\* C19 witness: the failed request was the last one answered, and the next
\* ensure for the same pair has looked the pair up, found the row the failed
\* request had inserted, the pair's only row, and is about to update it.
C19_Witness ==
    /\ CreatedThenFailed
    /\ case_attempts[last.insertId].status = "IN_PROGRESS"
    /\ RowsOfPair(last.caseId, last.user) = {last.insertId}
    /\ \E r \in Slots :
          /\ req[r].pc = "ensure_update"
          /\ req[r].caseId = last.caseId /\ req[r].user = last.user
          /\ req[r].existing.attempt_id = last.insertId

\* The save answered last and the save of slot r, whose UPDATE executes in this
\* step, are on the same attempt: the two UPDATEs are consecutive writes of
\* that attempt's section columns
SecondSave(r) ==
    /\ SaveSucceeds(r)
    /\ last.kind = "save" /\ last.status = 200
    /\ last.attemptId = req[r].attemptId /\ last.user = req[r].user

\* What C20 requires of a step
C20_Step ==
    \A r \in Slots :
        SecondSave(r)
        => LET old == case_attempts[req[r].attemptId]
               new == case_attempts'[req[r].attemptId]
               first == colMap(last.section)
               second == colMap(last'.section)
           IN  /\ old[first] = Stored(last)
               /\ new[second] = Stored(last')
               /\ second # first => new[first] = Stored(last)
               /\ \A c \in JsonColumns \ {first, second} : new[c] = old[c]

\* C20: of two saves on the same attempt, whatever the order of their lookups
\* and UPDATEs, the UPDATE executed second leaves its own section's column
\* equal to its own data; the column of the first keeps the first's data when
\* the sections differ, and when they are the same the column holds the
\* second's data alone.
C20_LastWriteWins == [][C20_Step]_vars

\* C20 witness: a save of d1 into exam was answered ok; it had looked the
\* attempt up IN_PROGRESS with no section saved, and by the time of its UPDATE
\* a concurrent save had written history, which the row still holds beside
\* exam's d1.
C20_Witness ==
    /\ last.kind = "save" /\ last.status = 200
    /\ last.section = "exam" /\ last.data = "d1"
    /\ last.existing.status = "IN_PROGRESS"
    /\ last.existing.history_json = Null
    /\ case_attempts[last.attemptId].history_json = "'{}'"
    /\ case_attempts[last.attemptId].exam_json = "'d1'"
    /\ case_attempts[last.attemptId].status = "IN_PROGRESS"

\* The columns that only a completion sets
CompletionColumns(row) == <<row.pdf_url, row.completed_at>>

\* What C21 requires of a state
C21_State ==
    \A i \in AttemptIds :
        (case_attempts[i].pdf_url # Null \/ case_attempts[i].completed_at # NullTime)
        => case_attempts[i].status = "COMPLETED"

\* What C21 requires of a step
C21_Step ==
    /\ \A r \in Slots :
          (Steps(r) /\ req[r].kind \in {"ensure", "save"})
          => \A i \in AttemptIds :
                CompletionColumns(case_attempts'[i]) = CompletionColumns(case_attempts[i])
    /\ \A i \in AttemptIds :
          CompletionColumns(case_attempts'[i]) # CompletionColumns(case_attempts[i])
          => /\ case_attempts'[i].status = "COMPLETED"
             /\ \E r \in Slots : req[r].pc = "complete_update" /\ Answered(r)
                                 /\ req[r].attemptId = i
    /\ \A i \in 1..Len(case_attempts') :
          i \notin AttemptIds
          => CompletionColumns(case_attempts'[i]) = <<Null, NullTime>>

\* C21: in every state a row whose pdf_url or completed_at is set has status
\* COMPLETED; no statement of ensure or save changes pdf_url or completed_at
\* of a row, a created row has neither, and the only statement that changes
\* them is the UPDATE of complete, which leaves the row COMPLETED.
C21_SetOnlyWhenCompleted == []C21_State /\ [][C21_Step]_vars

\* C21 witness: an ensure has created a second attempt, which has no pdf_url
\* and no completed_at, after the first was completed with pdf_url p1.
C21_Witness ==
    /\ last.kind = "ensure" /\ last.status = 200 /\ last.insertId = 2
    /\ Len(case_attempts) = 2
    /\ case_attempts[1].status = "COMPLETED"
    /\ case_attempts[1].pdf_url = "p1" /\ case_attempts[1].completed_at # NullTime
    /\ case_attempts[2].status = "IN_PROGRESS"
    /\ CompletionColumns(case_attempts[2]) = <<Null, NullTime>>

\* The attempts of the table that belong to userId
AttemptsOf(userId) == {i \in AttemptIds : case_attempts[i].user_id = userId}

\* What C22 requires of a step
C22_Step ==
    \A r \in Slots :
        (req[r].pc = "my_progress_select" /\ Answered(r) /\ last'.status = 200)
        => LET attempts == last'.body.attempts
           IN  /\ {attempts[k].attempt_id : k \in 1..Len(attempts)}
                     = AttemptsOf(last'.user)
               /\ Len(attempts) = Cardinality(AttemptsOf(last'.user))

\* C22: the listing my-progress answers holds every row of case_attempts with
\* the caller's user_id, each exactly once, also when the row's case has been
\* removed from cases by DELETE /api/cases/:id.
C22_FullSet == [][C22_Step]_vars

\* The request of slot r is answered in this step with the code and the error
AnsweredWith(r, code, error) ==
    Answered(r) /\ last'.status = code /\ last'.body = Error(error)

\* What C23 requires of a step
C23_Step ==
    \A r \in Slots :
        /\ (req[r].pc = "save_select" /\ Steps(r) /\ ~Me(r).err)
           => /\ case_attempts' = case_attempts
              /\ IF ~(Me(r).attemptId \in AttemptIds
                      /\ case_attempts[Me(r).attemptId].user_id = Me(r).user)
                 THEN AnsweredWith(r, 404, "NOT_FOUND")
                 ELSE IF case_attempts[Me(r).attemptId].status = "COMPLETED"
                 THEN AnsweredWith(r, 403, "CASE_COMPLETED")
                 ELSE IF Me(r).section \notin Sections \cup InheritedKeys
                 THEN AnsweredWith(r, 400, "BAD_SECTION")
                 ELSE ~Answered(r) /\ req'[r].pc = "save_update" /\ last' = last
        /\ (req[r].pc = "save_update" /\ Steps(r))
           => Answered(r) /\ last'.status \in {200, 500}

\* C23: a save checks the attempt first, then its status, then the section: a
\* save on an attempt that is missing or another user's is answered 404
\* NOT_FOUND whatever its section, a save on the caller's COMPLETED attempt is
\* answered 403 CASE_COMPLETED whatever its section, and only a save on the
\* caller's IN_PROGRESS attempt is answered 400 BAD_SECTION for a section that
\* is no key of colMap; a request is answered once, by the first check that
\* fails or by its UPDATE.
C23_SaveCheckOrder == [][C23_Step]_vars

\* C23 witness: a save with a section that is none of the five, on the
\* caller's COMPLETED attempt, was answered CASE_COMPLETED.
C23_Witness ==
    /\ last.kind = "save" /\ last.status = 403
    /\ last.body = Error("CASE_COMPLETED")
    /\ last.section = "bogus"
    /\ last.existing.status = "COMPLETED" /\ last.existing.user_id = last.user

\* The rows a response shows: the attempt of its payload and the attempts of
\* its listing, as ids
RowsShown(response) ==
    {response.body.attempt.attempt_id,
     response.existing.attempt_id} \cup
    {response.body.attempts[k].attempt_id : k \in 1..Len(response.body.attempts)}

\* The lookup of the request of slot r, executed in this step, found a row
\* exactly when the rows of the request's user hold one that matches
OwnLookup(r) ==
    /\ (req[r].pc \in {"ensure_select", "by_case_select"} /\ Steps(r) /\ ~Me(r).err)
       => (Me(r).existing = NoRow <=> RowsOfPair(Me(r).caseId, Me(r).user) = {})
    /\ (req[r].pc \in {"save_select", "complete_select"} /\ Steps(r) /\ ~Me(r).err)
       => (Me(r).existing = NoRow <=> Me(r).attemptId \notin AttemptsOf(Me(r).user))

\* What C24 requires of a step
C24_Step ==
    \A r \in Slots :
        Steps(r)
        => /\ \A i \in AttemptIds :
                 case_attempts[i].user_id # Me(r).user
                 => case_attempts'[i] = case_attempts[i]
           /\ \A i \in 1..Len(case_attempts') :
                 i \notin AttemptIds => case_attempts'[i].user_id = Me(r).user
           /\ Answered(r)
              => \A i \in RowsShown(last') \ {0} :
                    i \in 1..Len(case_attempts')
                    /\ case_attempts'[i].user_id = last'.user
           /\ Me(r).existing # NoRow => Me(r).existing.user_id = Me(r).user
           /\ OwnLookup(r)

\* In the run without the other users' requests, started on the empty table,
\* the attempts of a user are numbered from 1 in the order of their creation
OwnNumbering ==
    \A u \in Users : AttemptsOf(u) = 1..Cardinality(AttemptsOf(u))

\* C24 as stated: no request of a user changes a row of another user, no
\* response to a user contains a row of another user, and the rows of a user
\* and the responses to that user are the same as in the run without the
\* other users' requests, attempt_id included.
C24_SameAsWithoutOthers == [][C24_Step]_vars /\ []OwnNumbering

\* C24, amended: no request of a user changes or creates a row of another
\* user, no response to a user shows a row of another user, the row a lookup
\* found is a row of the request's user, and a lookup finds a row exactly when
\* the rows of the request's user hold one that matches (the case of an ensure
\* or by-case, the attempt id of a save or complete).  Nothing is stated about
\* a run without the other users' requests: attempt ids are drawn from a
\* counter all users share, so the id of a row a user creates, and with it the
\* answer to a request that names an id, depends on the other users' requests.
C24_UserIsolation == [][C24_Step]_vars

\* C24 witness: u1's ensure for c1 was answered with a row created for u1,
\* while the table held u2's attempt of the same case, which is unchanged
\* since its creation.
C24_Witness ==
    /\ last.kind = "ensure" /\ last.status = 200 /\ last.user = "u1"
    /\ last.caseId = "c1" /\ last.insertId = 2
    /\ last.body.attempt.user_id = "u1"
    /\ Len(case_attempts) = 2
    /\ case_attempts[1].user_id = "u2" /\ case_attempts[1].case_id = "c1"
    /\ case_attempts[1].updated_at = case_attempts[1].started_at

\* Some row of the pair that the request of slot r names is COMPLETED
PairHasCompleted(r) ==
    \E i \in RowsOfPair(Me(r).caseId, Me(r).user) :
        case_attempts[i].status = "COMPLETED"

\* C25: whenever some row of case_attempts for a pair is COMPLETED, also when
\* the pair has several rows after a race of ensure requests, the lookup of an
\* ensure or a by-case for the pair is answered 403 CASE_COMPLETED with a
\* COMPLETED attempt: the request returns no IN_PROGRESS attempt and goes on
\* to no UPDATE or INSERT.
C25_ReentryBlocked ==
    [][\A r \in Slots :
          (req[r].pc \in {"ensure_select", "by_case_select"} /\ Steps(r)
           /\ ~Me(r).err /\ PairHasCompleted(r))
          => /\ Answered(r)
             /\ last'.status = 403 /\ last'.body.error = "CASE_COMPLETED"
             /\ last'.body.attempt.status = "COMPLETED"
             /\ case_attempts' = case_attempts]_vars

----------------------------------------------------------------------------
(* Role gating of the writes of server.js *)

StudentEndpoints ==
    {"/api/student-notes", "/api/assessment-plan", "/api/assessment-plan-cpt",
     "/api/performed-tests"}

WizardSteps ==
    {"/wizard/step1", "/wizard/step2", "/wizard/step3", "/wizard/step4",
     "/wizard/step5", "/wizard/step6"}

\* The role a write endpoint is for
RoleFor(endpoint) ==
    IF endpoint \in StudentEndpoints THEN "student" ELSE "professor"

\* The request that acts in this step: the one that arrives, or the one whose
\* upload has ended or whose statement calls back; as the step leaves it
Acting ==
    IF served' # served THEN Arrived
    ELSE Me(CHOOSE r \in Slots : req'[r] # req[r])

\* A request that waits for the upload middleware; its handler has not run
Uploading(me) == me.pc \in {"step3_upload", "step4_upload"}

\* The request that acts in this step does not have the role of its endpoint
Rejected ==
    /\ Acting.kind \in StudentEndpoints \cup WizardSteps
    /\ Acting.session # RoleFor(Acting.kind)

\* A step of a request without the role issues no statement and, when the
\* handler has run, answers 403
Refused ==
    /\ Uploading(Acting) \/ (Acting.pc = "done" /\ Acting.status = 403)
    /\ Acting.writes = 0

\* A step that issues an INSERT or UPDATE, or whose INSERT adds a case, is a
\* step of a request whose session user has the endpoint's role
Gated ==
    (Acting.kind \in StudentEndpoints \cup WizardSteps
     /\ (issued' # issued \/ cases' # cases))
    => Acting.session = RoleFor(Acting.kind)

\* C26 as stated: a request to a student write endpoint or to a wizard step
\* whose session user does not have the endpoint's role has no INSERT or UPDATE
\* issued for it, is answered 403 and leaves storage unchanged: the tables and
\* the directory of uploaded files.
C26_StorageUnchanged ==
    [][/\ Rejected => Refused /\ UNCHANGED <<case_attempts, cases, issued, uploads>>
       /\ Gated]_vars

\* What C26 requires of a step
C26_Step ==
    /\ Rejected =>
          /\ Refused
          /\ UNCHANGED <<case_attempts, cases, issued>>
          /\ uploads' # uploads =>
                /\ Acting.kind \in {"/wizard/step3", "/wizard/step4"}
                /\ Acting.files > 0
                /\ uploads' = uploads + Acting.files
                /\ Acting.status = 403
    /\ Gated

\* C26, amended: a request to a student write endpoint or to a wizard step
\* whose session user does not have the endpoint's role (student, professor)
\* has no INSERT or UPDATE issued for it, is answered 403 by the handler and
\* leaves the tables unchanged; the directory of uploaded files changes for
\* such a request only at wizard step 3 or 4, by the files the request
\* carries, which the upload middleware stores before the handler answers
\* 403.  A step in which such an endpoint issues an INSERT or UPDATE, or its
\* INSERT adds a case, is a step of a request whose session user has that role.
C26_RoleGating == [][C26_Step]_vars

\* C26 witness: a student's request to wizard step 3, which came with a file,
\* has been answered 403 and its file is stored, on a server where the INSERT
\* of a student's performed test stays issued and nothing else was issued.
C26_Witness ==
    /\ last.kind = "/wizard/step3"
    /\ last.session = "student"
    /\ last.files = 1
    /\ last.status = 403
    /\ uploads = 1
    /\ issued["performed_tests"] = 1
    /\ Sum(issued) = 1

====
